---- MODULE Spec2Model ----
(***************************************************************************)
(* ROM identification of emulator-manager: the NES resolver with its       *)
(* header repair engine (app/plugins/nes/plugin.py), the ZIP archive       *)
(* adapter (app/core/rom_manager.py) and the per-platform title priority   *)
(* chains (app/plugins/<platform>/plugin.py).                              *)
(*                                                                         *)
(* Files are byte sequences, CRC-32 is computed bit for bit (in two 16-bit *)
(* halves), reference tables are functions from CRC strings to entries.    *)
(***************************************************************************)
EXTENDS Integers, Sequences, FiniteSets, TLC

VARIABLES
    rom,        \* bytes of the plain NES file, or NoFile
    romBak,     \* bytes of <file>.bak, or NoFile
    inTemp,     \* the plain file lies directly in the system temp directory
    zip,        \* the ZIP archive: [state, members], members a sequence of [name, data]
    zipBak,     \* <archive>.bak, in the same form
    games,      \* official table of the platform in use: key -> entry
    custom,     \* custom table of the platform in use: CRC string -> [name]
    headers,    \* header pool of the NES plugin (sequence of 16-byte headers)
    repaired,   \* an earlier call completed a header rewrite of the plain file
    last,       \* what the last operation did and returned
    probe,      \* the file handed to a resolver other than the NES one
    loader,     \* the module-level table cache and the threads that load it
    backupDir,  \* the backup directory of one game save, and the wall clock
    library,    \* rom_library.json and the RomLibrary instances over it
    procs       \* identification calls in progress on the plain NES file

vars == <<rom, romBak, inTemp, zip, zipBak, games, custom, headers, repaired, last,
          probe, loader,
                   backupDir, library, procs>>

\* a missing file (no byte is negative), and Python's None
NoFile == <<-1>>
None == [none |-> TRUE]

-----------------------------------------------------------------------------
(* Bounds of the model *)

MaxBodyLen == 1
MaxPool == 2

-----------------------------------------------------------------------------
(* CRC-32 (zlib.crc32), on 32-bit values kept as two 16-bit halves *)

RECURSIVE XorBits(_, _, _)
XorBits(a, b, n) ==
    IF n = 0 THEN 0
    ELSE (((a % 2) + (b % 2)) % 2) + 2 * XorBits(a \div 2, b \div 2, n - 1)

\* exclusive or of two 4-bit values, tabulated
XorNib == [a \in 0..15 |-> [b \in 0..15 |-> XorBits(a, b, 4)]]

\* exclusive or of two 16-bit values
Xor(a, b) ==
    XorNib[a % 16][b % 16]
    + 16 * XorNib[(a \div 16) % 16][(b \div 16) % 16]
    + 256 * XorNib[(a \div 256) % 16][(b \div 256) % 16]
    + 4096 * XorNib[(a \div 4096) % 16][(b \div 4096) % 16]

XorW(c, d) == [hi |-> Xor(c.hi, d.hi), lo |-> Xor(c.lo, d.lo)]

Shr8(c) == [hi |-> c.hi \div 256, lo |-> (c.lo \div 256) + (c.hi % 256) * 256]

\* n rounds of the bitwise CRC: shift right by one, and exclusive or with
\* the reflected polynomial 0xEDB88320 when the bit shifted out is set
RECURSIVE CrcBits(_, _)
CrcBits(c, n) ==
    IF n = 0 THEN c
    ELSE CrcBits(XorW([hi |-> c.hi \div 2,
                       lo |-> (c.lo \div 2) + (c.hi % 2) * 32768],
                      IF c.lo % 2 = 1 THEN [hi |-> 60856, lo |-> 33568]
                      ELSE [hi |-> 0, lo |-> 0]),
                 n - 1)

crc_table == [n \in 0..255 |-> CrcBits([hi |-> 0, lo |-> n], 8)]

\* one table-driven step per byte; the running value is computed before the
\* next byte is taken
RECURSIVE CrcFold(_, _, _)
CrcFold(c, data, i) ==
    IF i > Len(data) THEN c
    ELSE CHOOSE r \in {CrcFold(n, data, i + 1) :
                          n \in {XorW(crc_table[Xor(c.lo % 256, data[i])], Shr8(c))}} :
             TRUE

\* zlib.crc32(data) & 0xFFFFFFFF
crc32(data) ==
    XorW(CrcFold([hi |-> 65535, lo |-> 65535], data, 1), [hi |-> 65535, lo |-> 65535])

\* n as w upper-case hexadecimal digits
RECURSIVE HexN(_, _)
HexN(n, w) ==
    IF w = 0 THEN ""
    ELSE HexN(n \div 16, w - 1)
         \o <<"0", "1", "2", "3", "4", "5", "6", "7",
              "8", "9", "A", "B", "C", "D", "E", "F">>[(n % 16) + 1]

\* f"{crc & 0xFFFFFFFF:08X}"
Hex8(c) == HexN(c.hi, 4) \o HexN(c.lo, 4)

-----------------------------------------------------------------------------
(* Byte-level inputs *)

_INES_MAGIC == <<78, 69, 83, 26>>              \* b"NES\x1a"
_HEADER_SIZE == 16
NesMaxSize == 67108864                          \* 64 * 1024 * 1024

\* iNES 1.0, NES 2.0 and a third variant of the same cartridge header,
\* and a header whose magic is wrong
HdrA == _INES_MAGIC \o <<2, 1, 1, 0, 0, 0, 0, 0, 0, 0, 0, 0>>
HdrB == _INES_MAGIC \o <<2, 1, 1, 8, 0, 0, 0, 0, 0, 0, 0, 0>>
HdrC == _INES_MAGIC \o <<2, 1, 0, 0, 0, 0, 0, 0, 0, 0, 0, 0>>
HdrBad == <<78, 69, 83, 0, 2, 1, 1, 0, 0, 0, 0, 0, 0, 0, 0, 0>>

\* headers of the files, headers of the DAT (the pool, and the images keyed
\* in the official table), headers whose images may be keyed in the custom table
FileHdrs == {HdrA, HdrB, HdrBad}
DatHdrs == {HdrB, HdrC}
CustomHdrs == {HdrA, HdrB}

RECURSIVE Fill(_, _)
Fill(b, n) == IF n = 0 THEN <<>> ELSE <<b>> \o Fill(b, n - 1)

\* PRG bytes after the header
Bodies == {Fill(234, n) : n \in 1..MaxBodyLen}

\* deduplicated pools of at most MaxPool headers
Pools == {p \in UNION {[1..n -> DatHdrs] : n \in 0..MaxPool} :
            \A i, j \in DOMAIN p : i # j => p[i] # p[j]}

Tail16(data) == SubSeq(data, _HEADER_SIZE + 1, Len(data))     \* data[16:]
Take(data, n) == SubSeq(data, 1, IF Len(data) < n THEN Len(data) ELSE n)  \* data[:n]

-----------------------------------------------------------------------------
(* NES plugin *)

\* parse_nes_header: None when unreadable, too short or the wrong magic
parse_nes_header(data) ==
    IF data = NoFile THEN None
    ELSE IF Len(Take(data, _HEADER_SIZE)) < _HEADER_SIZE THEN None
    ELSE IF Take(data, 4) # _INES_MAGIC THEN None
    ELSE [rom_size |-> Len(data), is_nes2 |-> (data[8] % 16) \div 4 = 2]

\* the CRC strings of the images of the model and of what a failed write
\* leaves of them, computed once
CrcMemo ==
    [d \in {h \o b : h \in FileHdrs \cup DatHdrs, b \in Bodies \cup {<<>>}} \cup {<<>>}
        |-> Hex8(crc32(d))]

\* f"{zlib.crc32(data) & 0xFFFFFFFF:08X}"
CrcStr(data) == IF data \in DOMAIN CrcMemo THEN CrcMemo[data] ELSE Hex8(crc32(data))

\* NESGamePlugin._compute_crc32: "" for a missing or oversized file
_compute_crc32(data) ==
    IF data = NoFile THEN ""
    ELSE IF Len(data) > NesMaxSize THEN ""
    ELSE CrcStr(data)

\* index of the first pool header whose CRC with the body is a key of the
\* official table, 0 when there is none (the for loop of _match_with_dat_header)
\* a loop that takes the first pool header without the table test
FirstMatch_noTableTest(pool, db, body, i) == IF i > Len(pool) THEN 0 ELSE i

RECURSIVE FirstMatch(_, _, _, _)
FirstMatch(pool, db, body, i) ==
    IF i > Len(pool) THEN 0
    ELSE IF CrcStr(pool[i] \o body) \in DOMAIN db THEN i
    ELSE FirstMatch(pool, db, body, i + 1)

\* Outcomes of the two file-system writes of _fix_nes_header.  A copy or a
\* write of n bytes either completes or raises OSError after k < n bytes.
\* The points kept are one per case the code can tell apart afterwards:
\* -1, the destination was not yet created or truncated; 0, it is empty
\* (shorter than a header); _HEADER_SIZE, the header went out, the body did not.
IoOutcomes(n) ==
    {<<"ok", 0>>} \cup
    {<<f, k>> : f \in {"copy_fail", "write_fail"},
                k \in {j \in {-1, 0, _HEADER_SIZE} : j < n}}

\* _fix_nes_header(path, original_data, correct_header) under outcome io;
\* bak is what <file>.bak holds, is_temp the result of the parent-directory
\* test.  The early return when the header already is the correct one:
fix_is_noop(original_data, correct_header) ==
    Take(original_data, _HEADER_SIZE) = correct_header

\* a header-only image, as a write that forgets the body would leave
FixedImage_headerOnly(original_data, correct_header) == correct_header

\* an image that keeps the old header in front of the body
FixedImage_keepsOldHeader(original_data, correct_header) ==
    correct_header \o original_data

\* correct_header + original_data[16:], the bytes the repair writes
FixedImage(original_data, correct_header) ==
    correct_header \o Tail16(original_data)

\* the write step, with .bak already settled as bak1
WriteFixed(original_data, fixed, bak1, io) ==
    IF io[1] = "write_fail" THEN
        [file |-> IF io[2] < 0 THEN original_data ELSE SubSeq(fixed, 1, io[2]),
         bak |-> bak1, failed |-> "write",
         overwrote |-> io[2] >= 0, bakAtWrite |-> bak1]
    ELSE
        [file |-> fixed, bak |-> bak1, failed |-> "",
         overwrote |-> TRUE, bakAtWrite |-> bak1]

_fix_nes_header(original_data, correct_header, is_temp, bak, io) ==
    IF fix_is_noop(original_data, correct_header) THEN
        [file |-> original_data, bak |-> bak, failed |-> "",
         overwrote |-> FALSE, bakAtWrite |-> bak]
    ELSE IF ~is_temp /\ bak = NoFile /\ io[1] = "copy_fail" THEN
        [file |-> original_data,
         bak |-> IF io[2] < 0 THEN NoFile ELSE SubSeq(original_data, 1, io[2]),
         failed |-> "copy", overwrote |-> FALSE, bakAtWrite |-> bak]
    ELSE WriteFixed(original_data, FixedImage(original_data, correct_header),
                    IF ~is_temp /\ bak = NoFile THEN original_data ELSE bak, io)

\* what _match_with_dat_header reports when it returns "" before any repair
NoMatch(data, bak) ==
    [ret |-> "", file |-> data, bak |-> bak, fixCalled |-> FALSE, failed |-> "",
     overwrote |-> FALSE, bakAtWrite |-> bak, hdr |-> <<>>]

\* the end of the loop body for the matching header hdr, f being what
\* _fix_nes_header did: OSError is caught and "" returned
MatchResult(f, hdr, crc_str) ==
    [ret |-> IF f.failed # "" THEN "" ELSE crc_str,
     file |-> f.file, bak |-> f.bak, fixCalled |-> TRUE, failed |-> f.failed,
     overwrote |-> f.overwrote, bakAtWrite |-> f.bakAtWrite, hdr |-> hdr]

\* the loop of _match_with_dat_header, i being the first matching index
MatchAt(i, data, is_temp, bak, io) ==
    IF i = 0 THEN NoMatch(data, bak)
    ELSE MatchResult(_fix_nes_header(data, headers[i], is_temp, bak, io),
                     headers[i], CrcStr(headers[i] \o Tail16(data)))

\* NESGamePlugin._match_with_dat_header: returns the matched CRC or "",
\* with the file and .bak it leaves behind
_match_with_dat_header(data, is_temp, bak, io) ==
    IF Len(headers) = 0 THEN NoMatch(data, bak)
    ELSE IF data = NoFile THEN NoMatch(data, bak)
    ELSE IF Len(data) > NesMaxSize \/ Len(data) < 16 THEN NoMatch(data, bak)
    ELSE IF Take(data, 4) # _INES_MAGIC THEN NoMatch(data, bak)
    ELSE MatchAt(FirstMatch(headers, games, Tail16(data), 1),
                 data, is_temp, bak, io)

\* Priority 1: custom DB.  s is the running (crc, title_name, dat_crc32,
\* dat_id) of parse_rom_info, tier the last priority that assigned a title.
Priority1(crc) ==
    IF crc # "" /\ crc \in DOMAIN custom
    THEN [crc |-> crc, title_name |-> custom[crc].name, dat_crc32 |-> <<crc>>,
          dat_id |-> -1, tier |-> "custom"]
    ELSE [crc |-> crc, title_name |-> "", dat_crc32 |-> <<>>,
          dat_id |-> -1, tier |-> "none"]

\* Priority 2: official games DB (direct match)
Priority2(s) ==
    IF s.title_name = "" /\ s.crc # "" /\ s.crc \in DOMAIN games
    THEN [crc |-> s.crc, title_name |-> games[s.crc].name,
          dat_crc32 |-> <<s.crc>>, dat_id |-> games[s.crc].id,
          tier |-> "official"]
    ELSE s

\* Priority 3: header-based matching, matched_crc being what
\* _match_with_dat_header returned
Priority3(s, matched_crc) ==
    IF matched_crc # ""
    THEN [crc |-> matched_crc,
          title_name |-> IF matched_crc \in DOMAIN games
                         THEN games[matched_crc].name ELSE "",
          dat_crc32 |-> <<matched_crc>>,
          dat_id |-> IF matched_crc \in DOMAIN games
                     THEN games[matched_crc].id ELSE -1,
          tier |-> "repair"]
    ELSE s

\* Priority 4 (filename stem) and the returned RomInfo
Priority4(s, stem) ==
    [info |-> [title_id |-> IF s.crc # "" THEN s.crc ELSE stem,
               title_name |-> IF s.title_name = "" THEN stem ELSE s.title_name,
               dat_crc32 |-> s.dat_crc32,
               dat_id |-> s.dat_id],
     tier |-> IF s.title_name = "" THEN "stem" ELSE s.tier]

\* what a call that never reaches priority 3 did to the file system
Untouched(data, bak) ==
    [file |-> data, bak |-> bak, matchCalled |-> FALSE,
     fixCalled |-> FALSE, failed |-> "", overwrote |-> FALSE,
     bakAtWrite |-> bak, matched |-> "", hdr |-> <<>>]

\* the call after priority 3 ran with result m
AfterMatch(s, m, stem) ==
    Priority4(Priority3(s, m.ret), stem) @@
    [file |-> m.file, bak |-> m.bak, matchCalled |-> TRUE,
     fixCalled |-> m.fixCalled, failed |-> m.failed, overwrote |-> m.overwrote,
     bakAtWrite |-> m.bakAtWrite, matched |-> m.ret, hdr |-> m.hdr]

\* the call from priority 3 on, s being the result of priorities 1 and 2
FromPriority3(s, data, stem, is_temp, bak, io) ==
    IF s.title_name = "" /\ s.crc # ""
    THEN AfterMatch(s, _match_with_dat_header(data, is_temp, bak, io), stem)
    ELSE Priority4(s, stem) @@ Untouched(data, bak)

\* How the file answers the reads of one call: "ok", every stat and open
\* works; "gone", each raises OSError (missing file, permission error);
\* "vanish", the first read (the header) works and each later stat or open
\* raises OSError (the file disappears in between)
Access == {"ok", "gone", "vanish"}

\* NESGamePlugin.parse_rom_info(rom_path) on a file holding data, named
\* stem, with .bak sibling bak, under write outcome io and read outcome acc.
\* parse_nes_header and _compute_crc32 catch OSError and return None and "".
parse_rom_info(data, stem, is_temp, bak, io, acc) ==
    IF acc = "gone" \/ parse_nes_header(data) = None
    THEN [info |-> None, tier |-> "none"] @@ Untouched(data, bak)
    ELSE IF acc = "vanish"
    THEN Priority4(Priority2(Priority1("")), stem) @@ Untouched(data, bak)
    ELSE FromPriority3(Priority2(Priority1(_compute_crc32(data))),
                       data, stem, is_temp, bak, io)

\* NESGamePlugin.extract_game_id
extract_game_id(data, stem, acc) ==
    IF acc = "ok" /\ _compute_crc32(data) # "" THEN _compute_crc32(data) ELSE stem

-----------------------------------------------------------------------------
(* Reference tables and initial file system *)

\* the official table chosen by g: for each header of DatHdrs, whether its
\* image with body is keyed, and whether the entry has a name
GamesTable(g, body) ==
    [k \in {CrcStr(h \o body) : h \in {x \in DatHdrs : g[x] # "absent"}} |->
        IF k = CrcStr(HdrB \o body)
        THEN [name |-> IF g[HdrB] = "named" THEN "Game B" ELSE "", id |-> 12]
        ELSE [name |-> IF g[HdrC] = "named" THEN "Game C" ELSE "", id |-> 13]]

\* the custom table that keys the images of the headers xs, each with name
CustomTable(xs, name, body) ==
    [k \in {CrcStr(h \o body) : h \in xs} |-> [name |-> name]]

NoZip == [state |-> "absent", members |-> <<>>]

RomStem == "Game (USA)"
NoOp == [op |-> "init"]
NoProbe == [platform |-> "nes"]

\* no table cache in play
NoLoader == [style |-> "none"]

\* no backup directory, no library and no call in progress
NoBackups == [files |-> <<>>]
NoLibrary == [disk |-> None]
NoProcs == <<>>
Idle == backupDir = NoBackups /\ library = NoLibrary /\ procs = NoProcs

InitTables(body) ==
    /\ \E g \in [DatHdrs -> {"absent", "noname", "named"}] :
          games = GamesTable(g, body)
    /\ \E xs \in {{}} \cup {{h} : h \in CustomHdrs}, name \in {"", "Fan translation"} :
          custom = CustomTable(xs, name, body)
    /\ headers \in Pools

\* a plain NES file, with or without a .bak left by an earlier run
Init ==
    /\ \E h \in FileHdrs, body \in Bodies :
          /\ rom = h \o body
          /\ InitTables(body)
    /\ romBak \in {NoFile, <<66, 65, 75>>}
    /\ inTemp \in BOOLEAN
    /\ zip = NoZip
    /\ zipBak = NoZip
    /\ repaired = FALSE
    /\ last = NoOp
    /\ probe = NoProbe
    /\ loader = NoLoader
    /\ Idle

-----------------------------------------------------------------------------
(* Operations *)

\* one identification call on the plain file
ParseRom ==
    /\ rom # NoFile
    /\ \E io \in IoOutcomes(Len(rom)), acc \in Access :
          \E r \in {parse_rom_info(rom, RomStem, inTemp, romBak, io, acc)} :
              /\ rom' = r.file
              /\ romBak' = r.bak
              /\ repaired' = (repaired \/ (r.overwrote /\ r.matched # ""))
              /\ last' = [op |-> "parse", preRom |-> rom, preBak |-> romBak,
                          scratch |-> FALSE, wasRepaired |-> repaired,
                          acc |-> acc, raised |-> FALSE] @@ r
    /\ UNCHANGED <<inTemp, zip, zipBak, games, custom, headers, probe, loader,
                   backupDir, library, procs>>

\* one canonical-ID extraction on the plain file
ExtractId ==
    /\ rom # NoFile
    /\ \E acc \in Access :
          last' = [op |-> "extract_id", platform |-> "nes", via |-> "file", acc |-> acc,
                   ret |-> extract_game_id(rom, RomStem, acc), raised |-> FALSE]
    /\ UNCHANGED <<rom, romBak, inTemp, zip, zipBak, games, custom, headers, repaired,
                   probe, loader,
                   backupDir, library, procs>>

Next == ParseRom \/ ExtractId

Spec == Init /\ [][Next]_vars

-----
(* ZIP archive adapter: RomManager._process_zip with the NES plugin *)

NesExtensions == {".nes", ".unf", ".unif", ".fds"}     \* get_rom_extensions()

\* str.lower() on the suffixes of the model
Lower(suffix) == IF suffix = ".NES" THEN ".nes" ELSE suffix

\* member names are kept as stem and suffix (Path(name).suffix)
ReadmeName == [stem |-> "readme", suffix |-> ".txt"]
TmpStem == "tmpk3x9q2"                                  \* NamedTemporaryFile

\* the first member whose suffix is a ROM extension, 0 when there is none
RECURSIVE FirstRom(_, _, _)
FirstRom(members, rom_exts, i) ==
    IF i > Len(members) THEN 0
    ELSE IF Lower(members[i].name.suffix) \in rom_exts THEN i
    ELSE FirstRom(members, rom_exts, i + 1)

\* a rewrite that keeps no other member
OtherEntries_dropsAll(members, rom_name) == <<>>

\* the (name, data) pairs of the members other than rom_name, in archive order
OtherEntries(members, rom_name) ==
    SelectSeq(members, LAMBDA m : m.name # rom_name)

\* an adapter that writes back after every identification
NeedsUpdate_always(fixed_data, original_data) == TRUE

\* fixed_data != original_data
NeedsUpdate(fixed_data, original_data) == fixed_data # original_data

\* RomManager._compute_crc32 (max_size 1 GiB)
rm_compute_crc32(data) ==
    IF data = NoFile THEN ""
    ELSE IF Len(data) > 1073741824 THEN ""
    ELSE CrcStr(data)

\* RomManager._create_entry on the scratch copy, after the plugin calls
\* (r is the result of parse_rom_info, data what the scratch file then holds)
_create_entry(r, data, stem) ==
    [rom_path |-> "scratch",
     game_id |-> extract_game_id(data, stem, "ok"),
     file_size |-> Len(data),
     hash_crc32 |-> IF r.info # None /\ Len(r.info.dat_crc32) > 0
                    THEN r.info.dat_crc32[1] ELSE rm_compute_crc32(data),
     rom_info |-> r.info]

\* Outcomes of RomManager._update_rom_in_zip: the backup copy or the rewrite
\* of the archive may raise OSError and leave an incomplete file behind.
ZipOutcomes == {"ok", "write_fail", "copy_fail_none", "copy_fail_partial"}

Corrupt == [state |-> "corrupt", members |-> <<>>]

\* the rewrite step, with .bak already settled as bak1: the ROM first, then
\* the other members
WriteZip(rom_name, fixed_data, other_entries, bak1, zio) ==
    IF zio = "write_fail"
    THEN [zip |-> Corrupt, bak |-> bak1, raised |-> TRUE,
          rewrote |-> TRUE, bakAtRewrite |-> bak1]
    ELSE [zip |-> [state |-> "ok",
                   members |-> <<[name |-> rom_name, data |-> fixed_data]>>
                               \o other_entries],
          bak |-> bak1, raised |-> FALSE,
          rewrote |-> TRUE, bakAtRewrite |-> bak1]

_update_rom_in_zip(archive, bak, rom_name, fixed_data, zio) ==
    IF bak.state = "absent" /\ zio = "copy_fail_none"
    THEN [zip |-> archive, bak |-> bak, raised |-> TRUE,
          rewrote |-> FALSE, bakAtRewrite |-> bak]
    ELSE IF bak.state = "absent" /\ zio = "copy_fail_partial"
    THEN [zip |-> archive, bak |-> Corrupt, raised |-> TRUE,
          rewrote |-> FALSE, bakAtRewrite |-> bak]
    ELSE WriteZip(rom_name, fixed_data, OtherEntries(archive.members, rom_name),
                  IF bak.state = "absent" THEN archive ELSE bak, zio)

\* what _process_zip leaves when it returns before extracting a member
ZipIdle(archive, bak) ==
    [ret |-> None, zip |-> archive, bak |-> bak, updateCalled |-> FALSE,
     rewrote |-> FALSE, bakAtRewrite |-> bak,
     scratchChanged |-> FALSE, repairedScratch |-> FALSE,
     overwrote |-> FALSE, rom_name |-> ReadmeName,
     original_data |-> <<>>, fixed_data |-> <<>>]

\* what the call did to the scratch copy of member mem, r being the result
\* of the plugin on it
ScratchFacts(mem, r) ==
    [scratchChanged |-> r.file # mem.data,
     repairedScratch |-> r.overwrote /\ r.matched # "",
     overwrote |-> r.overwrote,
     rom_name |-> mem.name, original_data |-> mem.data,
     fixed_data |-> r.file]

\* the end of _process_zip after the archive update did u
AfterUpdate(entry, u) ==
    [ret |-> IF u.raised THEN [raised |-> TRUE]
             ELSE [entry EXCEPT !.rom_path = "archive"],
     zip |-> u.zip, bak |-> u.bak, updateCalled |-> TRUE,
     rewrote |-> u.rewrote, bakAtRewrite |-> u.bakAtRewrite]

\* the second try block of _process_zip: entry built from the scratch copy,
\* which the plugin left as r.file
AfterEntry(archive, bak, mem, r, entry, zio) ==
    (IF ~NeedsUpdate(r.file, mem.data)
     THEN [ret |-> [entry EXCEPT !.rom_path = "archive"],
           zip |-> archive, bak |-> bak, updateCalled |-> FALSE,
           rewrote |-> FALSE, bakAtRewrite |-> bak]
     ELSE AfterUpdate(entry,
                      _update_rom_in_zip(archive, bak, mem.name, r.file, zio)))
    @@ ScratchFacts(mem, r)

\* the scratch copy lies in the temp directory and has no .bak
OnScratch(archive, bak, mem, r, zio) ==
    AfterEntry(archive, bak, mem, r, _create_entry(r, r.file, TmpStem), zio)

ProcessMember(archive, bak, i, io, zio) ==
    IF i = 0 THEN ZipIdle(archive, bak)
    ELSE OnScratch(archive, bak, archive.members[i],
                   parse_rom_info(archive.members[i].data, TmpStem, TRUE,
                                  NoFile, io, "ok"),
                   zio)

\* RomManager._process_zip(zip_path, rom_exts, game_plugin) with the NES
\* plugin, the scratch write under outcome io, the archive update under zio
_process_zip(archive, bak, io, zio) ==
    IF archive.state # "ok" THEN ZipIdle(archive, bak)
    ELSE ProcessMember(archive, bak,
                       FirstRom(archive.members, NesExtensions, 1), io, zio)

Archive(members) == [state |-> "ok", members |-> members]

\* archive layouts: ROM after a text member, ROM before a second ROM,
\* and an archive with no ROM member
Layouts(romData) ==
    { <<[name |-> ReadmeName, data |-> <<104, 105>>],
        [name |-> [stem |-> "Game (USA)", suffix |-> ".NES"], data |-> romData]>>,
      <<[name |-> [stem |-> "Game (USA)", suffix |-> ".NES"], data |-> romData],
        [name |-> [stem |-> "Game (Japan)", suffix |-> ".nes"],
         data |-> HdrBad \o <<1>>]>>,
      <<[name |-> ReadmeName, data |-> <<104, 105>>]>> }

StaleZipBak == Archive(<<[name |-> ReadmeName, data |-> <<111, 108, 100>>]>>)

InitZip ==
    /\ \E h \in FileHdrs, body \in Bodies :
          /\ zip \in {Archive(m) : m \in Layouts(h \o body)}
          /\ InitTables(body)
    /\ zipBak \in {NoZip, StaleZipBak}
    /\ rom = NoFile
    /\ romBak = NoFile
    /\ inTemp = FALSE
    /\ repaired = FALSE
    /\ last = NoOp
    /\ probe = NoProbe
    /\ loader = NoLoader
    /\ Idle

\* one identification of the ZIP-wrapped ROM
ProcessZip ==
    /\ zip.state # "absent"
    /\ \E io \in IoOutcomes(_HEADER_SIZE + MaxBodyLen), zio \in ZipOutcomes :
          \E z \in {_process_zip(zip, zipBak, io, zio)} :
              /\ zip' = z.zip
              /\ zipBak' = z.bak
              /\ last' = [op |-> "zip", preZip |-> zip, preZipBak |-> zipBak,
                          again |-> (last.op = "zip")] @@ z
    /\ UNCHANGED <<rom, romBak, inTemp, games, custom, headers, repaired, probe,
                   loader, backupDir, library, procs>>

NextZip == ProcessZip

SpecZip == InitZip /\ [][NextZip]_vars

-----------------------------------------------------------------------------
(* Title priority chains of the other platforms: SNES, GBA, NDS, 3DS and   *)
(* Switch.  Their files are too large to fold byte by byte; a file is       *)
(* given by what the resolver reads of it (probe): its size, the header     *)
(* fields, and the 32-bit CRC values of its contents.                       *)

\* CRC-32 values of a whole file and of the same file without its first
\* 512 bytes
CrcWhole == [hi |-> 43981, lo |-> 1]
CrcBody == [hi |-> 43981, lo |-> 2]

\* bytes.decode("ascii", errors="replace") on the bytes of the model; the
\* character "\x00" is written "NUL"
DecodeAscii(bytes) ==
    [i \in 1..Len(bytes) |->
        IF bytes[i] = 0 THEN "NUL"
        ELSE IF bytes[i] = 32 THEN " " ELSE IF bytes[i] = 65 THEN "A"
        ELSE IF bytes[i] = 68 THEN "D" ELSE IF bytes[i] = 69 THEN "E"
        ELSE IF bytes[i] = 76 THEN "L" ELSE IF bytes[i] = 90 THEN "Z"
        ELSE "?"]

\* raw.split(b"\x00", 1)[0]
RECURSIVE SplitNul(_, _)
SplitNul(raw, i) ==
    IF i > Len(raw) THEN raw
    ELSE IF raw[i] = 0 THEN SubSeq(raw, 1, i - 1)
    ELSE SplitNul(raw, i + 1)

\* str.strip() on a sequence of characters
Whitespace == {" ", "\t", "\n", "\r", "\f"}
RECURSIVE LStrip(_)
LStrip(cs) ==
    IF cs = <<>> THEN cs
    ELSE IF Head(cs) \in Whitespace THEN LStrip(Tail(cs)) ELSE cs
RECURSIVE RStrip(_)
RStrip(cs) ==
    IF cs = <<>> THEN cs
    ELSE IF cs[Len(cs)] \in Whitespace THEN RStrip(SubSeq(cs, 1, Len(cs) - 1))
    ELSE cs
Strip(cs) == RStrip(LStrip(cs))

RECURSIVE Join(_)
Join(cs) == IF cs = <<>> THEN "" ELSE Head(cs) \o Join(Tail(cs))

\* the 12-byte title field of a GBA or NDS header, decoded as the parsers do
HeaderTitle(raw) == Join(Strip(DecodeAscii(SplitNul(raw, 1))))

\* 12-byte title fields: all NUL, blanks only, and "ZELDA"
TitleFields == {Fill(0, 12), <<32, 32>> \o Fill(0, 10),
                <<90, 69, 76, 68, 65>> \o Fill(0, 7)}

\* parse_gba_header: None for a file shorter than the header (0xC0 bytes)
parse_gba_header(p) ==
    IF p.size < 192 THEN None
    ELSE [game_title |-> HeaderTitle(p.title_raw), game_code |-> p.game_code]

\* parse_nds_header: None for a file shorter than the header (0x200 bytes)
parse_nds_header(p) ==
    IF p.size < 512 THEN None
    ELSE [game_title |-> HeaderTitle(p.title_raw), game_code |-> p.game_code]

\* GBAHeaderInfo.full_game_id / NDSHeaderInfo.full_game_id
full_game_id(prefix, game_code) ==
    IF game_code # "" THEN prefix \o "-" \o game_code ELSE ""

\* str.strip(chars) on a sequence of characters
StripChars(cs, chars) ==
    IF \A i \in 1..Len(cs) : cs[i] \in chars THEN <<>>
    ELSE SubSeq(cs,
                CHOOSE i \in 1..Len(cs) :
                    cs[i] \notin chars /\ \A k \in 1..(i - 1) : cs[k] \in chars,
                CHOOSE i \in 1..Len(cs) :
                    cs[i] \notin chars /\ \A k \in (i + 1)..Len(cs) : cs[k] \in chars)

\* the 21-byte SNES title field: decode, strip("\x00"), strip()
SnesTitle(raw) == Strip(StripChars(DecodeAscii(raw), {"NUL"}))

\* _try_parse_at(data, base): fields are the header fields that data holds
\* at base, data_len is len(data); None when the header does not fit, when
\* checksum XOR complement is not 0xFFFF, or when the title is blank
_try_parse_at(fields, base, data_len) ==
    IF base + 48 > data_len THEN None
    ELSE IF Xor(fields.checksum, fields.complement) # 65535 THEN None
    ELSE IF SnesTitle(fields.title_raw) = <<>>
            \/ \A i \in 1..Len(SnesTitle(fields.title_raw)) :
                  SnesTitle(fields.title_raw)[i] \in {"NUL", " "}
    THEN None
    ELSE [game_title |-> Join(SnesTitle(fields.title_raw)),
          mapping_mode |-> IF fields.map_mode % 2 = 1 THEN "HiROM" ELSE "LoROM"]

\* for base in [LoROM, HiROM]: the first candidate that parses
FirstCandidate(lo, hi, has_copier) ==
    IF lo # None THEN lo @@ [has_copier_header |-> has_copier]
    ELSE IF hi # None THEN hi @@ [has_copier_header |-> has_copier]
    ELSE None

\* parse_snes_header of a readable file: p.lo and p.hi are the header fields
\* at the LoROM offset 0x7FB0 and the HiROM offset 0xFFB0, both after the
\* copier header when the file has one; at most 0x10200 bytes are read
parse_snes_header(p) ==
    IF p.size < 32768 THEN None
    ELSE FirstCandidate(
             _try_parse_at(p.lo, 32688 + (IF p.size % 1024 = 512 THEN 512 ELSE 0),
                           IF p.size < 66048 THEN p.size ELSE 66048),
             _try_parse_at(p.hi, 65456 + (IF p.size % 1024 = 512 THEN 512 ELSE 0),
                           IF p.size < 66048 THEN p.size ELSE 66048),
             p.size % 1024 = 512)

\* what a call hands to its caller: a value, or an exception
Return(v) == [ret |-> v, raised |-> FALSE]
Raise == [ret |-> None, raised |-> TRUE]

\* "except OSError: return None" of the header parsers
OnReadError(acc, header) == IF acc = "gone" THEN None ELSE header

\* _compute_crc32 / _compute_crc32_raw of a plugin: "" above max_size; an
\* OSError of stat or open is caught in the helpers that are guarded (NES,
\* SNES, 3DS) and leaves the others (GBA, NDS)
file_crc32(p, max_size, acc, guarded) ==
    IF acc # "ok" THEN [ret |-> "", raised |-> ~guarded]
    ELSE IF p.size > max_size THEN Return("")
    ELSE Return(Hex8(p.crc))

\* SNESGamePlugin._compute_crc32_pair
_compute_crc32_pair(p, header, acc) ==
    IF acc # "ok" THEN <<"", "">>
    ELSE IF p.size > 67108864 THEN <<"", "">>
    ELSE IF (IF header # None THEN header.has_copier_header
             ELSE (p.size % 1024) = 512)
            /\ p.size > 512
    THEN <<Hex8(p.crc), Hex8(p.crc_nocopier)>>
    ELSE <<Hex8(p.crc), Hex8(p.crc)>>

\* one round of the SNES lookup loop for crc: custom first, then official
SnesLookup(crc) ==
    IF crc = "" THEN [hit |-> FALSE]
    ELSE IF crc \in DOMAIN custom
    THEN [hit |-> TRUE, title_name |-> custom[crc].name, matched_crc |-> crc]
    ELSE IF crc \in DOMAIN games /\ games[crc] # ""
    THEN [hit |-> TRUE, title_name |-> games[crc], matched_crc |-> crc]
    ELSE [hit |-> FALSE]

\* for crc in (crc_full, crc_nocopier): ... break
SnesLoop(first, second) ==
    IF first.hit THEN first
    ELSE IF second.hit THEN second
    ELSE [hit |-> FALSE, title_name |-> "", matched_crc |-> ""]

\* priorities 3 and 4 of the SNES resolver and the returned RomInfo
SnesFinish(m, crc_full, header, stem) ==
    [title_id |-> IF m.matched_crc # "" THEN m.matched_crc
                  ELSE IF crc_full # "" THEN crc_full ELSE stem,
     title_name |-> IF m.title_name # "" THEN m.title_name
                    ELSE IF header # None THEN header.game_title
                    ELSE stem,
     dat_crc32 |-> IF m.hit THEN <<m.matched_crc>> ELSE <<>>]

SnesResolve(pair, header, stem) ==
    SnesFinish(SnesLoop(SnesLookup(pair[1]), SnesLookup(pair[2])),
               pair[1], header, stem)

\* SNESGamePlugin.parse_rom_info: a record even without a header
snes_parse_rom_info(p, stem, acc) ==
    Return(SnesResolve(_compute_crc32_pair(p, OnReadError(acc, parse_snes_header(p)),
                                           acc),
                       OnReadError(acc, parse_snes_header(p)), stem))

\* priorities 1 and 2 of the CRC-keyed resolvers whose official table maps a
\* CRC to a name (GBA): the title after the two lookups
CrcTitle(crc) ==
    IF crc # "" /\ crc \in DOMAIN custom /\ custom[crc].name # ""
    THEN custom[crc].name
    ELSE IF crc # "" /\ crc \in DOMAIN games /\ games[crc] # ""
    THEN games[crc]
    ELSE ""

\* GBAGamePlugin.parse_rom_info: priority 3 is the last one
GbaResolve(header, crc) ==
    [title_id |-> full_game_id("AGB", header.game_code),
     title_name |-> IF CrcTitle(crc) # "" THEN CrcTitle(crc)
                    ELSE header.game_title,
     dat_crc32 |-> IF crc # "" /\ (crc \in DOMAIN custom
                                   \/ (crc \in DOMAIN games /\ games[crc] # ""))
                   THEN <<crc>> ELSE <<>>]

gba_parse_rom_info(p, acc) ==
    IF OnReadError(acc, parse_gba_header(p)) = None THEN Return(None)
    ELSE IF file_crc32(p, 67108864, acc, FALSE).raised THEN Raise
    ELSE Return(GbaResolve(parse_gba_header(p),
                           file_crc32(p, 67108864, acc, FALSE).ret))

\* str.upper() on the game codes of the model
Upper(code) == IF code = "adae" THEN "ADAE" ELSE code

\* NDSGamePlugin.parse_rom_info: custom by CRC, official by serial
\* (title1 is the title after priority 1)
NdsOfficialHit(title, game_code) ==
    title = "" /\ game_code # "" /\ Upper(game_code) \in DOMAIN games

NdsResolve(header, title1) ==
    [title_id |-> full_game_id("NTR", header.game_code),
     title_name |-> IF NdsOfficialHit(title1, header.game_code)
                    THEN (IF games[Upper(header.game_code)].name # ""
                          THEN games[Upper(header.game_code)].name
                          ELSE header.game_title)
                    ELSE IF title1 # "" THEN title1
                    ELSE header.game_title,
     dat_crc32 |-> IF NdsOfficialHit(title1, header.game_code)
                   THEN games[Upper(header.game_code)].crc32 ELSE <<>>]

\* the title after priority 1 (custom table keyed by CRC)
CustomName(crc) == IF crc # "" /\ crc \in DOMAIN custom THEN custom[crc].name ELSE ""

nds_parse_rom_info(p, acc) ==
    IF OnReadError(acc, parse_nds_header(p)) = None THEN Return(None)
    ELSE IF file_crc32(p, 268435456, acc, FALSE).raised THEN Raise
    ELSE Return(NdsResolve(parse_nds_header(p),
                           CustomName(file_crc32(p, 268435456, acc, FALSE).ret)))

\* N3DSGamePlugin.parse_rom_info: official entries are [name, id]
N3dsTitle(crc) ==
    IF crc # "" /\ crc \in DOMAIN custom /\ custom[crc].name # ""
    THEN custom[crc].name
    ELSE IF crc # "" /\ crc \in DOMAIN games THEN games[crc].name
    ELSE ""

N3dsResolve(header, crc, stem) ==
    [title_id |-> IF header.title_id # "" THEN header.title_id
                  ELSE IF crc # "" THEN crc ELSE stem,
     title_name |-> IF N3dsTitle(crc) # "" THEN N3dsTitle(crc)
                    ELSE IF header.product_code # "" THEN header.product_code
                    ELSE IF header.title_id # "" THEN header.title_id
                    ELSE stem,
     dat_crc32 |-> IF crc # "" /\ (crc \in DOMAIN custom \/ crc \in DOMAIN games)
                   THEN <<crc>> ELSE <<>>]

\* _align64(offset)
_align64(offset) == ((offset + 63) \div 64) * 64

\* len(f.read(want)) after f.seek(offset) in a file of size bytes
ReadLen(size, offset, want) ==
    IF offset >= size THEN 0
    ELSE IF size - offset < want THEN size - offset
    ELSE want

\* the six signature types of a TMD: RSA-4096, RSA-2048 and ECDSA with SHA-1
\* (0x00010000..0x00010002) and with SHA-256 (0x00010003..0x00010005)
KnownSigTypes == 65536..65541

\* _TMD_SIG_SIZES.get(sig_type, 0x140)
_TMD_SIG_SIZES(sig_type) ==
    IF sig_type \in {65536, 65539} THEN 576
    ELSE IF sig_type \in {65537, 65540} THEN 320
    ELSE IF sig_type \in {65538, 65541} THEN 128
    ELSE 320

\* the title ID that parse_cia_header takes from the TMD at tmd_offset:
\* img.tmd_id is the hex string of the 8 bytes of the TMD at the header size
\* of img.sig_type + 0x4C
CiaTitleId(img, tmd_offset) ==
    IF img.tmd_size >= 512
       /\ ReadLen(img.size, tmd_offset, 512) >= 416
       /\ ReadLen(img.size, tmd_offset, 512) >= _TMD_SIG_SIZES(img.sig_type) + 76 + 8
    THEN img.tmd_id
    ELSE ""

\* the record of parse_cia_header from the NCCH record of the content
\* section (None without the NCCH magic) and the TMD title ID
CiaInfo(ncch, title_id) ==
    IF ncch # None
    THEN (IF title_id # "" /\ title_id # "0000000000000000"
          THEN [ncch EXCEPT !.title_id = title_id] ELSE ncch)
    ELSE IF title_id # "" /\ title_id # "0000000000000000"
    THEN [product_code |-> "", title_id |-> title_id]
    ELSE None

\* parse_cia_header on a readable file: the sizes of the CIA header place
\* the TMD and the content section; a read past the end of file is short
parse_cia_header(img) ==
    IF img.size < 32 THEN None
    ELSE IF img.header_size = 0 \/ img.header_size > 65536 THEN None
    ELSE IF ReadLen(img.size,
                    _align64(img.header_size) + _align64(img.cert_size)
                    + _align64(img.ticket_size) + _align64(img.tmd_size), 512) < 512
    THEN None
    ELSE CiaInfo(img.ncch,
                 CiaTitleId(img, _align64(img.header_size) + _align64(img.cert_size)
                                 + _align64(img.ticket_size)))

\* parse_n3ds_rom: dispatch on the suffix (.cia, else the NCSD/NCCH parsers,
\* whose result the file carries as parsed and header)
parse_n3ds_rom(p) ==
    IF p.suffix = ".cia" THEN parse_cia_header(p.image)
    ELSE IF p.parsed THEN p.header
    ELSE None

\* the 3DS limit of 4 GiB is above every size of the model
n3ds_parse_rom_info(p, stem, acc) ==
    IF OnReadError(acc, parse_n3ds_rom(p)) = None THEN Return(None)
    ELSE Return(N3dsResolve(parse_n3ds_rom(p),
                            file_crc32(p, 2147483647, acc, TRUE).ret, stem))

\* re.sub(r"[\[\(].*?[\]\)]", "", stem) on a sequence of characters
\* the next "]" or ")" from position j on, 0 when there is none
RECURSIVE NextCloser(_, _)
NextCloser(cs, j) ==
    IF j > Len(cs) THEN 0
    ELSE IF cs[j] \in {"]", ")"} THEN j
    ELSE NextCloser(cs, j + 1)

RECURSIVE StripGroups(_, _)
StripGroups(cs, i) ==
    IF i > Len(cs) THEN <<>>
    ELSE IF cs[i] \in {"[", "("} /\ NextCloser(cs, i + 1) # 0
    THEN StripGroups(cs, NextCloser(cs, i + 1) + 1)
    ELSE <<cs[i]>> \o StripGroups(cs, i + 1)

\* SwitchGamePlugin._extract_title_from_filename
_extract_title_from_filename(cs) ==
    IF Join(Strip(StripGroups(cs, 1))) # "" THEN Join(Strip(StripGroups(cs, 1)))
    ELSE Join(cs)

\* SwitchGamePlugin._fill_from_nacp: the title the NACP gives, "" without one
NacpTitle(nacp) ==
    IF nacp = None THEN ""
    ELSE IF nacp.zh_CN # "" THEN nacp.zh_CN
    ELSE IF nacp.en_US # "" THEN nacp.en_US
    ELSE nacp.ja_JP

\* int(c, 16) for one character; -1 when c is no hexadecimal digit
HexDigit(c) ==
    IF \E i \in 1..16 : <<"0", "1", "2", "3", "4", "5", "6", "7", "8", "9",
                          "A", "B", "C", "D", "E", "F">>[i] = c
    THEN (CHOOSE i \in 1..16 : <<"0", "1", "2", "3", "4", "5", "6", "7", "8", "9",
                                 "A", "B", "C", "D", "E", "F">>[i] = c) - 1
    ELSE IF \E i \in 1..6 : <<"a", "b", "c", "d", "e", "f">>[i] = c
    THEN (CHOOSE i \in 1..6 : <<"a", "b", "c", "d", "e", "f">>[i] = c) + 9
    ELSE -1

\* re.search(r"\[([0-9A-Fa-f]{16})\]", stem), the group in upper case; ""
\* when the stem holds no such group
BracketId(cs) ==
    IF \E i \in 1..Len(cs) :
          /\ i + 17 <= Len(cs) /\ cs[i] = "[" /\ cs[i + 17] = "]"
          /\ \A k \in 1..16 : HexDigit(cs[i + k]) >= 0
    THEN Join([k \in 1..16 |->
                 HexN(HexDigit(cs[k + CHOOSE i \in 1..Len(cs) :
                          /\ i + 17 <= Len(cs) /\ cs[i] = "[" /\ cs[i + 17] = "]"
                          /\ \A j \in 1..16 : HexDigit(cs[i + j]) >= 0
                          /\ \A h \in 1..(i - 1) :
                                ~(/\ h + 17 <= Len(cs) /\ cs[h] = "[" /\ cs[h + 17] = "]"
                                  /\ \A j \in 1..16 : HexDigit(cs[h + j]) >= 0)]), 1)])
    ELSE ""

\* parse_nsp on a readable file.  img tells its size, whether it starts
\* with "PFS0", num_files of its header, whether the string table holds a
\* NUL from every name offset on, and (cnmt_id) the title ID in the header
\* of the NCA that is named *.cnmt.nca, "" without one.  struct.unpack_from
\* raises on a short header or entry, bytes.index on a missing NUL.
parse_nsp(img, stem) ==
    IF img.size < 4 \/ ~img.magic THEN Return("")
    ELSE IF img.size < 12 THEN Raise
    ELSE IF img.num_files > 0
            /\ (img.size - 16 < 24 * (img.num_files - 1) + 20 \/ ~img.name_end)
    THEN Raise
    ELSE Return(IF img.cnmt_id # "" THEN img.cnmt_id ELSE BracketId(stem))

\* parse_xci on a readable file: the HFS0 walk sits in try/except Exception
parse_xci(img, stem) ==
    IF img.size < 512 THEN Return("") ELSE Return(BracketId(stem))

\* the container parser raised inside parse_rom_info, which lets it pass
Caught_propagates(r) == r

\* "except Exception" of SwitchGamePlugin.parse_rom_info: return None
Caught(r) == IF r.raised THEN Return(None) ELSE r

\* _parse_nsp_info / _parse_xci_info on the result of the container parser:
\* neither parser fills "nacp"
SwitchContainerInfo(parsed, stem) ==
    IF parsed.raised THEN Raise
    ELSE Return([title_id |-> parsed.ret,
                 title_name |-> IF NacpTitle(None) # "" THEN NacpTitle(None)
                                ELSE _extract_title_from_filename(stem),
                 dat_crc32 |-> <<>>])

\* SwitchGamePlugin.parse_rom_info: None for another suffix; open() raises
\* OSError on an unreadable container; a .nro is never opened
switch_parse_rom_info(p, stem, acc) ==
    IF p.suffix \in {".nsp", ".nsz"}
    THEN Caught(IF acc # "ok" THEN Raise
                ELSE SwitchContainerInfo(parse_nsp(p.image, stem), stem))
    ELSE IF p.suffix \in {".xci", ".xcz"}
    THEN Caught(IF acc # "ok" THEN Raise
                ELSE SwitchContainerInfo(parse_xci(p.image, stem), stem))
    ELSE IF p.suffix = ".nro"
    THEN Return([title_id |-> "", title_name |-> _extract_title_from_filename(stem),
                 dat_crc32 |-> <<>>])
    ELSE Return(None)

\* the CRC strings a resolver looks up in the custom table for file p
CustomKeys(platform, p, acc) ==
    IF acc # "ok" THEN {}
    ELSE IF platform = "snes"
    THEN {_compute_crc32_pair(p, parse_snes_header(p), acc)[1],
          _compute_crc32_pair(p, parse_snes_header(p), acc)[2]} \ {""}
    ELSE IF platform = "switch" THEN {}
    ELSE {Hex8(p.crc)}

\* header fields at one candidate offset: checksum and complement that pass
\* the gate or not, the map mode byte, the title "ZELDA" or blanks
SnesFields(gate, map_mode, titled) ==
    [checksum |-> 4660, complement |-> IF gate THEN 60875 ELSE 4660,
     map_mode |-> map_mode,
     title_raw |-> IF titled THEN <<90, 69, 76, 68, 65>> \o Fill(32, 16)
                   ELSE Fill(32, 21)]

\* Files and tables of the title chains ---------------------------------------

\* CIA files: truncated, cut before the content section, and complete; with
\* header and certificate sizes that are zero, usual, or point far outside
\* the file; with a TMD too small to hold a title ID; with each of the six
\* signature types and an unknown one; with and without an NCCH header in
\* the content section
CiaImages ==
    {[size |-> n, header_size |-> hs, cert_size |-> cs, ticket_size |-> 848,
      tmd_size |-> ts, sig_type |-> sg, tmd_id |-> "0004000000055D00", ncch |-> nc] :
        n \in {16, 12288, 16384}, hs \in {0, 8224, 131072}, cs \in {2560, 268435456},
        ts \in {256, 2868}, sg \in KnownSigTypes \cup {0},
        nc \in {None, [product_code |-> "CTR-P-AQNE", title_id |-> "0004000000030800"]}}

\* NSP and XCI files: with and without the magic, cut inside the header,
\* after it and inside the first entry, with a file count of 0 or 1, with
\* and without a NUL in the string table; and one with a readable title ID
SwitchImages ==
    {[size |-> n, magic |-> m, num_files |-> k, name_end |-> e, cnmt_id |-> ""] :
        n \in {4, 16, 40, 1024}, m \in BOOLEAN, k \in {0, 1}, e \in BOOLEAN}
    \cup {[size |-> 1024, magic |-> TRUE, num_files |-> 1, name_end |-> TRUE,
           cnmt_id |-> "0100000000010000"]}

\* SNES files below the header offset, without and with a copier header,
\* and above the CRC size limit; GBA and NDS files shorter and longer than
\* their header and above their limits; 3DS cartridge dumps that parse or
\* not, and CIA files; Switch files with the stems "Zelda [01]", "[01](v0)",
\* "(Zelda" and "Z[0100abcd00010800]"
Probes ==
    {[platform |-> "snes", size |-> n, lo |-> c, hi |-> SnesFields(FALSE, 32, FALSE),
      crc |-> CrcWhole, crc_nocopier |-> CrcBody] :
        n \in {512, 32768, 33280, 67108865},
        c \in {SnesFields(TRUE, 32, TRUE), SnesFields(FALSE, 32, FALSE)}}
    \cup
    {[platform |-> pf, size |-> n, title_raw |-> t, game_code |-> c,
      crc |-> CrcWhole] :
        pf \in {"gba", "nds"}, n \in {16, 4096, 268435457}, t \in TitleFields,
        c \in {"ADAE", "adae", ""}}
    \cup
    {[platform |-> "3ds", suffix |-> ".3ds", size |-> 4096, parsed |-> ok,
      header |-> [product_code |-> pc, title_id |-> tid], crc |-> CrcWhole] :
        ok \in BOOLEAN, pc \in {"", "CTR-P-AQNE"},
        tid \in {"0000000000000000", "0004000000030800"}}
    \cup
    {[platform |-> "3ds", suffix |-> ".cia", size |-> img.size, image |-> img,
      crc |-> CrcWhole] : img \in CiaImages}
    \cup
    {[platform |-> "switch", suffix |-> sfx, image |-> img, stem |-> st] :
        sfx \in {".nsp", ".xci", ".nro", ".txt"}, img \in SwitchImages,
        st \in { <<"Z", "e", "l", "d", "a", " ", "[", "0", "1", "]">>,
                 <<"[", "0", "1", "]", "(", "v", "0", ")">>,
                 <<"(", "Z", "e", "l", "d", "a">>,
                 <<"Z", "[", "0", "1", "0", "0", "a", "b", "c", "d", "0", "0", "0",
                   "1", "0", "8", "0", "0", "]">> }}

\* custom tables: entries with a name, on the CRC strings of the file
CustomTables ==
    {[k \in ks |-> [name |-> "Fan translation"]] :
        ks \in SUBSET {Hex8(CrcWhole), Hex8(CrcBody)}}

\* official tables: CRC to name (SNES, GBA), serial to entry (NDS) listing
\* the CRC of the file or of another dump, CRC to entry (3DS), none (Switch)
OfficialTables(platform) ==
    IF platform \in {"snes", "gba"}
    THEN {[k \in ks |-> "Official"] : ks \in SUBSET {Hex8(CrcWhole), Hex8(CrcBody)}}
    ELSE IF platform = "nds"
    THEN {[k \in ks |-> [name |-> "Official", crc32 |-> <<Hex8(c)>>]] :
             ks \in SUBSET {"ADAE"}, c \in {CrcWhole, CrcBody}}
    ELSE IF platform = "3ds"
    THEN {[k \in ks |-> [name |-> "Official", id |-> 7]] :
             ks \in SUBSET {Hex8(CrcWhole)}}
    ELSE {<<>>}

InitProbe ==
    /\ probe \in Probes
    /\ loader = NoLoader
    /\ Idle
    /\ games \in OfficialTables(probe.platform)
    /\ IF probe.platform = "switch" THEN custom = <<>>
       ELSE custom \in CustomTables
    /\ headers = <<>>
    /\ rom = NoFile
    /\ romBak = NoFile
    /\ inTemp = FALSE
    /\ zip = NoZip
    /\ zipBak = NoZip
    /\ repaired = FALSE
    /\ last = NoOp

InitTitle == Init \/ InitProbe

\* Canonical IDs ------------------------------------------------------------

\* the CRC fallback of extract_game_id with the exception let through
CaughtCrc_propagates(c) == c

\* "try: crc = self._compute_crc32(rom_path) ... except Exception: pass"
CaughtCrc(c) == IF c.raised THEN Return("") ELSE c

\* "if crc: return crc" and "return rom_path.stem", c being the CRC fallback
CrcOrStem(c, stem) ==
    IF c.raised THEN Raise ELSE Return(IF c.ret # "" THEN c.ret ELSE stem)

\* SNESGamePlugin.extract_game_id after the two CRCs are computed
SnesId(pair, stem) ==
    IF pair[1] # "" /\ (pair[1] \in DOMAIN games \/ pair[1] \in DOMAIN custom)
    THEN pair[1]
    ELSE IF pair[2] # "" /\ (pair[2] \in DOMAIN games \/ pair[2] \in DOMAIN custom)
    THEN pair[2]
    ELSE IF pair[1] # "" THEN pair[1]
    ELSE stem

\* N3DSGamePlugin.extract_game_id, header being what parse_n3ds_rom returned
N3dsId(header, c, stem) ==
    IF header # None /\ header.title_id # "" /\ header.title_id # "0000000000000000"
    THEN Return(header.title_id)
    ELSE IF header # None /\ header.product_code # ""
    THEN Return(header.product_code)
    ELSE CrcOrStem(c, stem)

\* SwitchGamePlugin.extract_game_id, r being what parse_rom_info did
SwitchId(r, cs) ==
    IF r.raised THEN Raise
    ELSE IF r.ret # None /\ r.ret.title_id # "" THEN Return(r.ret.title_id)
    ELSE IF BracketId(cs) # "" THEN Return(BracketId(cs))
    ELSE Return(Join(cs))

\* game_plugin.extract_game_id(rom_path) for the file p under the name cs
plugin_extract_game_id(p, cs, acc) ==
    IF p.platform = "snes"
    THEN Return(SnesId(_compute_crc32_pair(p, OnReadError(acc, parse_snes_header(p)),
                                           acc), Join(cs)))
    ELSE IF p.platform = "gba"
    THEN (IF OnReadError(acc, parse_gba_header(p)) # None
             /\ parse_gba_header(p).game_code # ""
          THEN Return(full_game_id("AGB", parse_gba_header(p).game_code))
          ELSE CrcOrStem(CaughtCrc(file_crc32(p, 67108864, acc, FALSE)), Join(cs)))
    ELSE IF p.platform = "nds"
    THEN (IF OnReadError(acc, parse_nds_header(p)) # None
             /\ parse_nds_header(p).game_code # ""
          THEN Return(full_game_id("NTR", parse_nds_header(p).game_code))
          ELSE CrcOrStem(CaughtCrc(file_crc32(p, 268435456, acc, FALSE)), Join(cs)))
    ELSE IF p.platform = "3ds"
    THEN N3dsId(OnReadError(acc, parse_n3ds_rom(p)),
                CaughtCrc(file_crc32(p, 2147483647, acc, TRUE)), Join(cs))
    ELSE SwitchId(switch_parse_rom_info(p, cs, acc), cs)

\* max_size of the CRC helper of each plugin (4 GiB for 3DS, beyond the
\* integers of the checker and so beyond every size tried here)
MaxCrcSize(platform) ==
    IF platform = "nds" THEN 268435456
    ELSE IF platform = "3ds" THEN 2147483647
    ELSE 67108864

\* the CRC helper of the plugin of p: _compute_crc32, for SNES _compute_crc32_raw
plugin_crc32(p, acc) ==
    IF p.platform = "nes"
    THEN Return(IF acc = "ok" THEN _compute_crc32(rom) ELSE "")
    ELSE file_crc32(p, MaxCrcSize(p.platform), acc, p.platform \in {"snes", "3ds"})

\* the name of the file: its own stem, or the random stem of the scratch
\* copy that the archive adapter hands to the plugin
FileStem(p) ==
    IF p.platform = "switch" THEN p.stem
    ELSE <<"G", "a", "m", "e", " ", "(", "U", "S", "A", ")">>
TmpStems == { <<"t", "m", "p", "k", "3", "x", "9", "q", "2">>,
              <<"t", "m", "p", "7", "h", "2", "m", "z", "d">> }

\* the names under which _process_zip can hand p to the plugin: it extracts
\* only a member whose suffix is one of get_rom_extensions()
ScratchStems(p) ==
    IF p.platform = "switch" /\ p.suffix \notin {".nsp", ".xci", ".nsz", ".xcz", ".nro"}
    THEN {}
    ELSE TmpStems

\* what a title resolution leaves in last
Resolved(platform, r, acc) ==
    [op |-> "title", platform |-> platform, info |-> r.ret, raised |-> r.raised,
     acc |-> acc, keys |-> CustomKeys(platform, probe, acc)]

Unprobed == <<rom, romBak, inTemp, zip, zipBak, games, custom, headers, repaired,
              probe, loader,
                   backupDir, library, procs>>

ParseSnes ==
    /\ probe.platform = "snes"
    /\ \E acc \in Access :
          last' = Resolved("snes", snes_parse_rom_info(probe, RomStem, acc), acc)
    /\ UNCHANGED Unprobed

ParseGba ==
    /\ probe.platform = "gba"
    /\ \E acc \in Access :
          last' = Resolved("gba", gba_parse_rom_info(probe, acc), acc)
    /\ UNCHANGED Unprobed

ParseNds ==
    /\ probe.platform = "nds"
    /\ \E acc \in Access :
          last' = Resolved("nds", nds_parse_rom_info(probe, acc), acc)
    /\ UNCHANGED Unprobed

Parse3ds ==
    /\ probe.platform = "3ds"
    /\ \E acc \in Access :
          last' = Resolved("3ds", n3ds_parse_rom_info(probe, RomStem, acc), acc)
    /\ UNCHANGED Unprobed

ParseSwitch ==
    /\ probe.platform = "switch"
    /\ \E acc \in Access :
          last' = Resolved("switch", switch_parse_rom_info(probe, probe.stem, acc), acc)
    /\ UNCHANGED Unprobed

\* one canonical-ID extraction on the file, directly or on the scratch copy
\* that RomManager._process_zip extracts under a random name
ExtractGameId ==
    /\ probe.platform # "nes"
    /\ \E acc \in Access, cs \in {FileStem(probe)} \cup ScratchStems(probe) :
          last' = [op |-> "extract_id", platform |-> probe.platform,
                   via |-> IF cs \in TmpStems THEN "zip" ELSE "file", acc |-> acc]
                  @@ plugin_extract_game_id(probe, cs, acc)
    /\ UNCHANGED Unprobed

\* one call of the plugin's CRC helper on the file
ComputeCrc ==
    /\ probe.platform \in {"nes", "snes", "gba", "nds", "3ds"}
    /\ probe.platform = "nes" => rom # NoFile
    /\ \E acc \in Access :
          last' = [op |-> "crc", platform |-> probe.platform, acc |-> acc]
                  @@ plugin_crc32(probe, acc)
    /\ UNCHANGED Unprobed

NextTitle ==
    \/ ParseRom \/ ParseSnes \/ ParseGba \/ ParseNds \/ Parse3ds \/ ParseSwitch
    \/ ExtractId \/ ExtractGameId \/ ComputeCrc

SpecTitle == InitTitle /\ [][NextTitle]_vars

-----------------------------------------------------------------------------
(* Pure functions of the parsers: title-ID classification, filename        *)
(* version tags, the GBA header checksum and the SNES header candidates.   *)
(* Strings that the code indexes or searches are sequences of characters.  *)

\* the three-way test on the suffix, with every value up to 0x800 taken as dlc
ClassifySuffix_dlcUpTo800(suffix) ==
    IF suffix = 0 THEN "base"
    ELSE IF suffix <= 2048 THEN "dlc"
    ELSE "unknown"

\* the three-way test of classify_title_id on suffix = int(title_id[-3:], 16)
ClassifySuffix(suffix) ==
    IF suffix = 0 THEN "base"
    ELSE IF suffix = 2048 THEN "update"
    ELSE IF 1 <= suffix /\ suffix <= 2047 THEN "dlc"
    ELSE "unknown"

\* classify_title_id(title_id), for an ID of hexadecimal digits
classify_title_id(title_id) ==
    IF Len(title_id) < 4 THEN "unknown"
    ELSE ClassifySuffix(256 * HexDigit(title_id[Len(title_id) - 2])
                        + 16 * HexDigit(title_id[Len(title_id) - 1])
                        + HexDigit(title_id[Len(title_id)]))

\* SwitchGamePlugin.classify_rom on the canonical ID game_id:
\* re.fullmatch(r"[0-9A-Fa-f]{16}", game_id) guards the classification
classify_rom(game_id) ==
    IF Len(game_id) = 16 /\ \A i \in 1..16 : HexDigit(game_id[i]) >= 0
    THEN classify_title_id(game_id)
    ELSE "unknown"

\* str.lower() of one character (re.IGNORECASE compares folded characters)
LowerChar(c) ==
    IF \E i \in 1..26 : <<"A", "B", "C", "D", "E", "F", "G", "H", "I", "J", "K", "L",
                          "M", "N", "O", "P", "Q", "R", "S", "T", "U", "V", "W", "X",
                          "Y", "Z">>[i] = c
    THEN <<"a", "b", "c", "d", "e", "f", "g", "h", "i", "j", "k", "l", "m", "n", "o",
           "p", "q", "r", "s", "t", "u", "v", "w", "x", "y", "z">>[
             CHOOSE i \in 1..26 :
                <<"A", "B", "C", "D", "E", "F", "G", "H", "I", "J", "K", "L", "M",
                  "N", "O", "P", "Q", "R", "S", "T", "U", "V", "W", "X", "Y",
                  "Z">>[i] = c]
    ELSE c

Digits == {"0", "1", "2", "3", "4", "5", "6", "7", "8", "9"}

\* The version patterns of the NES plugin.  Each is a literal, then a group
\* of one or more characters of class (after white space when space is set),
\* then the closing character; the group may be left out when optional.
\*   beta     r"\(Beta(?:\s+(\d+))?\)"   re.IGNORECASE
\*   vc       r"\(Virtual Console\)"     re.IGNORECASE
\*   sample   r"\(Sample\)"              re.IGNORECASE
\*   rev      r"\(Rev\s+([\d.]+)\)"      re.IGNORECASE
\*   bracket  r"\[1\.(\d+)\]"
\* and the first pattern of RomManager._extract_version_from_filename
\*   rev_int  r"\(Rev\s+(\d+)\)"       re.IGNORECASE
VersionPatterns ==
    [beta |-> [lit |-> <<"(", "b", "e", "t", "a">>, ci |-> TRUE, space |-> TRUE,
               class |-> Digits, optional |-> TRUE, close |-> ")"],
     vc |-> [lit |-> <<"(", "v", "i", "r", "t", "u", "a", "l", " ", "c", "o", "n",
                       "s", "o", "l", "e">>, ci |-> TRUE, space |-> FALSE,
             class |-> {}, optional |-> TRUE, close |-> ")"],
     sample |-> [lit |-> <<"(", "s", "a", "m", "p", "l", "e">>, ci |-> TRUE,
                 space |-> FALSE, class |-> {}, optional |-> TRUE, close |-> ")"],
     rev |-> [lit |-> <<"(", "r", "e", "v">>, ci |-> TRUE, space |-> TRUE,
              class |-> Digits \cup {"."}, optional |-> FALSE, close |-> ")"],
     bracket |-> [lit |-> <<"[", "1", ".">>, ci |-> FALSE, space |-> FALSE,
                  class |-> Digits, optional |-> FALSE, close |-> "]"],
     rev_int |-> [lit |-> <<"(", "r", "e", "v">>, ci |-> TRUE, space |-> TRUE,
                  class |-> Digits, optional |-> FALSE, close |-> ")"]]

\* cs holds the literal of pat from position i on
StartsWith(cs, i, pat) ==
    /\ i + Len(pat.lit) - 1 <= Len(cs)
    /\ \A k \in 1..Len(pat.lit) :
          (IF pat.ci THEN LowerChar(cs[i + k - 1]) ELSE cs[i + k - 1]) = pat.lit[k]

\* the length of the longest run of characters of class from position i on
RECURSIVE Span(_, _, _)
Span(cs, i, class) ==
    IF i > Len(cs) THEN 0
    ELSE IF cs[i] \notin class THEN 0
    ELSE 1 + Span(cs, i + 1, class)

\* the rest of pat from position j on (just after the literal): the group
\* starts at g and is d characters long
MatchTail(cs, j, g, d, pat) ==
    IF (pat.space => g > j) /\ d > 0 /\ g + d <= Len(cs) /\ cs[g + d] = pat.close
    THEN [hit |-> TRUE, group |-> SubSeq(cs, g, g + d - 1)]
    ELSE IF pat.optional /\ j <= Len(cs) /\ cs[j] = pat.close
    THEN [hit |-> TRUE, group |-> <<>>]
    ELSE [hit |-> FALSE, group |-> <<>>]

\* a match of pat that starts at position i
MatchHere(cs, i, j, g, pat) ==
    IF ~StartsWith(cs, i, pat) THEN [hit |-> FALSE, group |-> <<>>]
    ELSE MatchTail(cs, j, g, Span(cs, g, pat.class), pat)

\* re.search(pat, cs): the leftmost match from position i on
RECURSIVE re_search(_, _, _)
re_search(cs, i, pat) ==
    IF i > Len(cs) THEN [hit |-> FALSE, group |-> <<>>]
    ELSE IF MatchHere(cs, i, i + Len(pat.lit),
                      i + Len(pat.lit)
                      + (IF pat.space THEN Span(cs, i + Len(pat.lit), Whitespace)
                         ELSE 0),
                      pat).hit
    THEN MatchHere(cs, i, i + Len(pat.lit),
                   i + Len(pat.lit)
                   + (IF pat.space THEN Span(cs, i + Len(pat.lit), Whitespace)
                      ELSE 0),
                   pat)
    ELSE re_search(cs, i + 1, pat)

\* the numeric half of _extract_version_from_filename
NumericVersion(rev, bracket) ==
    IF rev.hit THEN Join(rev.group)
    ELSE IF bracket.hit THEN Join(bracket.group)
    ELSE ""

\* the same with the numeric tags looked up first
SpecialVersion_numericFirst(beta, vc, sample, numeric) ==
    IF numeric # "" THEN numeric
    ELSE IF beta.hit THEN (IF beta.group # <<>> THEN "beta " \o Join(beta.group)
                           ELSE "beta")
    ELSE IF vc.hit THEN "vc"
    ELSE IF sample.hit THEN "sample"
    ELSE ""

\* special versions take priority over the numeric ones
SpecialVersion(beta, vc, sample, numeric) ==
    IF beta.hit THEN (IF beta.group # <<>> THEN "beta " \o Join(beta.group)
                      ELSE "beta")
    ELSE IF vc.hit THEN "vc"
    ELSE IF sample.hit THEN "sample"
    ELSE numeric

\* _extract_version_from_filename(stem) of the NES plugin
_extract_version_from_filename(stem) ==
    SpecialVersion(re_search(stem, 1, VersionPatterns.beta), re_search(stem, 1, VersionPatterns.vc),
                   re_search(stem, 1, VersionPatterns.sample),
                   NumericVersion(re_search(stem, 1, VersionPatterns.rev),
                                  re_search(stem, 1, VersionPatterns.bracket)))

\* RomManager._extract_version_from_filename(stem), given the two searches
RmVersion(rev, bracket) ==
    IF rev.hit THEN "1." \o Join(rev.group)
    ELSE IF bracket.hit THEN "1." \o Join(bracket.group)
    ELSE ""

rm_extract_version_from_filename(stem) ==
    RmVersion(re_search(stem, 1, VersionPatterns.rev_int),
              re_search(stem, 1, VersionPatterns.bracket))

\* Portable paths (app/core/path_resolver.py).  A path is its string, a
\* sequence of characters; a placeholder token such as "${HOME}" is one
\* element of a portable string.

\* _resolve_placeholders() in dict order, for the home directory /h/u with
\* Documents as D, AppData/Roaming as A/R and AppData/Local as A/L
_resolve_placeholders ==
    << [placeholder |-> "${DOCUMENTS}", resolved |-> <<"/", "h", "/", "u", "/", "D">>],
       [placeholder |-> "${APPDATA}",
        resolved |-> <<"/", "h", "/", "u", "/", "A", "/", "R">>],
       [placeholder |-> "${LOCALAPPDATA}",
        resolved |-> <<"/", "h", "/", "u", "/", "A", "/", "L">>],
       [placeholder |-> "${HOME}", resolved |-> <<"/", "h", "/", "u">>] >>

\* sorted(mapping.items(), key=lambda x: len(str(x[1])), reverse=True):
\* the items of length n or more, longest first, equal lengths in dict order
RECURSIVE LongestFirst(_, _)
LongestFirst(items, n) ==
    IF n < 0 THEN <<>>
    ELSE SelectSeq(items, LAMBDA x : Len(x.resolved) = n) \o LongestFirst(items, n - 1)

\* str.startswith
StartsWithStr(cs, prefix) ==
    Len(prefix) <= Len(cs) /\ SubSeq(cs, 1, Len(prefix)) = prefix

\* the loop of to_portable_path over the sorted items, from item i on
RECURSIVE PortableFrom(_, _, _)
PortableFrom(path_str, sorted_items, i) ==
    IF i > Len(sorted_items) THEN path_str
    ELSE IF StartsWithStr(path_str, sorted_items[i].resolved)
    THEN <<sorted_items[i].placeholder>>
         \o SubSeq(path_str, Len(sorted_items[i].resolved) + 1, Len(path_str))
    ELSE PortableFrom(path_str, sorted_items, i + 1)

\* to_portable_path(path) for a resolved absolute path
to_portable_path(path_str) ==
    PortableFrom(path_str, LongestFirst(_resolve_placeholders, 8), 1)

\* str.lstrip("/\\")
RECURSIVE LStripSep(_)
LStripSep(cs) ==
    IF cs # <<>> /\ Head(cs) \in {"/", "\\"} THEN LStripSep(Tail(cs)) ELSE cs

\* resolved / rel of pathlib, rel relative and free of "." and ".." parts
PathJoin(resolved, rel) ==
    IF rel = <<>> THEN resolved ELSE resolved \o <<"/">> \o rel

\* the loop of from_portable_path over the mapping, from item i on
RECURSIVE FromPortableFrom(_, _, _)
FromPortableFrom(portable, mapping, i) ==
    IF i > Len(mapping) THEN portable
    ELSE IF StartsWithStr(portable, <<mapping[i].placeholder>>)
    THEN PathJoin(mapping[i].resolved, LStripSep(Tail(portable)))
    ELSE FromPortableFrom(portable, mapping, i + 1)

\* from_portable_path(portable)
from_portable_path(portable) == FromPortableFrom(portable, _resolve_placeholders, 1)

\* sum of header[i] for i in range(lo, hi), offsets counted from 0
RECURSIVE SumBytes(_, _, _)
SumBytes(header, lo, hi) ==
    IF lo >= hi THEN 0 ELSE header[lo + 1] + SumBytes(header, lo + 1, hi)

\* the complement check without the constant 0x19
valid_checksum_noConstant(header) ==
    header[190] = (256 - (SumBytes(header, 160, 189) % 256)) % 256

\* valid_checksum of parse_gba_header:
\* header[0xBD] == (-(sum of header[0xA0..0xBC] + 0x19)) & 0xFF
valid_checksum(header) ==
    header[190] = (256 - ((SumBytes(header, 160, 189) + 25) % 256)) % 256

\* parse_gba_header on the bytes of a readable file: the title and the game
\* code are decoded from 0xA0 and 0xAC of the first 0xC0 bytes
GbaHeaderInfo(data) ==
    IF Len(data) < 192 THEN None
    ELSE parse_gba_header(
             [size |-> Len(data), title_raw |-> SubSeq(data, 161, 172),
              game_code |-> Join(Strip(StripChars(DecodeAscii(SubSeq(data, 173, 176)),
                                                  {"NUL"})))])
         @@ [valid_checksum |-> valid_checksum(Take(data, 192))]

\* Inputs of the pure functions ---------------------------------------------

\* 16-digit title IDs with every suffix over seven digits, an ID of three
\* digits, and canonical IDs that are no title ID
TitleIds ==
    {<<"0", "1", "0", "0", "A", "b", "0", "0", "0", "0", "0", "1", "2">> \o <<a, b, c>> :
        a \in {"0", "1", "7", "8", "9", "f", "F"},
        b \in {"0", "1", "7", "8", "9", "f", "F"},
        c \in {"0", "1", "7", "8", "9", "f", "F"}}
    \cup {<<"8", "0", "0">>, <<"Z", "e", "l", "d", "a">>,
          <<"0", "1", "0", "0", "A", "b", "0", "0", "0", "0", "0", "1", "2", "G",
            "0", "0">>}

\* GBA files: a title field, a version byte and every checksum byte, cut
\* one byte short of the header, exact, and with a byte after it
GbaImages ==
    {SubSeq([i \in 1..160 |-> 0] \o t \o <<65, 68, 65, 69, 48, 49, 150>> \o Fill(0, 9)
            \o <<v, c, 0, 0, 234>>, 1, n) :
        t \in TitleFields, v \in {0, 7}, c \in 0..255, n \in {191, 192, 193}}

\* SNES files of 0x8000, 0x10000 and 0x10200 bytes with every pair of
\* header fields at the two candidate offsets
SnesImages ==
    {[platform |-> "snes", size |-> n, lo |-> lo, hi |-> hi,
      crc |-> CrcWhole, crc_nocopier |-> CrcBody] :
        n \in {32768, 65536, 66048},
        lo \in {SnesFields(g, m, t) : g \in BOOLEAN, m \in {32, 33}, t \in BOOLEAN},
        hi \in {SnesFields(g, m, t) : g \in BOOLEAN, m \in {32, 33}, t \in BOOLEAN}}

\* file name stems as sequences of characters: one or two tags after "G "
VersionTags ==
    { <<"(", "R", "e", "v", " ", "1", ")">>,
      <<"(", "r", "e", "v", " ", " ", "2", ".", "1", ")">>,
      <<"(", "R", "e", "v", " ", "A", ")">>,
      <<"[", "1", ".", "2", "]">>,
      <<"[", "2", ".", "1", "]">>,
      <<"(", "B", "e", "t", "a", ")">>,
      <<"(", "B", "E", "T", "A", " ", "3", ")">>,
      <<"(", "B", "e", "t", "a", "3", ")">>,
      <<"(", "V", "i", "r", "t", "u", "a", "l", " ", "C", "o", "n", "s", "o", "l",
        "e", ")">>,
      <<"(", "s", "a", "m", "p", "l", "e", ")">>,
      <<"(", "U", "S", "A", ")">> }

Stems ==
    {<<"G", " ">> \o a \o b : a \in VersionTags \cup {<<>>}, b \in VersionTags \cup {<<>>}}

\* resolved absolute paths: the placeholder directories themselves, paths
\* under them, beside them (the directory name is a prefix of the sibling's
\* name) and outside of them
Paths ==
    {d.resolved \o t :
        d \in {_resolve_placeholders[i] : i \in 1..4},
        t \in {<<>>, <<"/", "s">>, <<"/", "s", "/", "g">>, <<"2">>, <<"2", "/", "s">>}}
    \cup {<<"/", "t", "/", "s">>, <<"/", "h">>, <<"/", "h", "/", "u", "/", "A">>}

PureInputs ==
    {[platform |-> "none", input |-> "title_id", id |-> t] : t \in TitleIds}
    \cup {[platform |-> "none", input |-> "gba", data |-> d] : d \in GbaImages}
    \cup {[platform |-> "none", input |-> "snes", image |-> f] : f \in SnesImages}
    \cup {[platform |-> "none", input |-> "stem", stem |-> s] : s \in Stems}
    \cup {[platform |-> "none", input |-> "path", path |-> q] : q \in Paths}

InitPure ==
    /\ probe \in PureInputs
    /\ loader = NoLoader
    /\ Idle
    /\ games = <<>>
    /\ custom = <<>>
    /\ headers = <<>>
    /\ rom = NoFile
    /\ romBak = NoFile
    /\ inTemp = FALSE
    /\ zip = NoZip
    /\ zipBak = NoZip
    /\ repaired = FALSE
    /\ last = NoOp

\* SwitchGamePlugin.classify_rom on a canonical ID
ClassifyRom ==
    /\ probe.platform = "none" /\ probe.input = "title_id"
    /\ last' = [op |-> "classify", ret |-> classify_rom(probe.id)]
    /\ UNCHANGED Unprobed

\* _extract_version_from_filename on a stem
ExtractVersion ==
    /\ probe.platform = "none" /\ probe.input = "stem"
    /\ last' = [op |-> "version", ret |-> _extract_version_from_filename(probe.stem)]
    /\ UNCHANGED Unprobed

\* the version that _process_zip derives from the stem of the archive
ExtractZipVersion ==
    /\ probe.platform = "none" /\ probe.input = "stem"
    /\ last' = [op |-> "zip_version",
                ret |-> rm_extract_version_from_filename(probe.stem)]
    /\ UNCHANGED Unprobed

\* to_portable_path, then from_portable_path on its result
RoundTrip ==
    /\ probe.platform = "none" /\ probe.input = "path"
    /\ last' = [op |-> "round_trip", portable |-> to_portable_path(probe.path),
                ret |-> from_portable_path(to_portable_path(probe.path))]
    /\ UNCHANGED Unprobed

\* parse_gba_header on a readable file
ParseGbaHeader ==
    /\ probe.platform = "none" /\ probe.input = "gba"
    /\ last' = [op |-> "gba_header", ret |-> GbaHeaderInfo(probe.data)]
    /\ UNCHANGED Unprobed

\* parse_snes_header on a readable file
ParseSnesHeader ==
    /\ probe.platform = "none" /\ probe.input = "snes"
    /\ last' = [op |-> "snes_header", ret |-> parse_snes_header(probe.image)]
    /\ UNCHANGED Unprobed

NextPure ==
    \/ ClassifyRom \/ ExtractVersion \/ ExtractZipVersion \/ RoundTrip
    \/ ParseGbaHeader \/ ParseSnesHeader

SpecPure == InitPure /\ [][NextPure]_vars

-----------------------------------------------------------------------------
(* Lazy table caches: the module-level _games_db of a plugin, and threads   *)
(* that each call _load_games_db() and look a key up in the dict it         *)
(* returns.  A dict object is the set of the keys it holds; the object a    *)
(* thread creates carries the number of the thread; 0 is None.              *)

Threads == {1, 2}
MaxCalls == 2

\* the keys of games.json, in file order
RawKeys == <<"1A2B3C4D", "5E6F7A8B", "9C0D1E2F">>
AllKeys == 1..Len(RawKeys)

\* the cache before the first call. style "loop": the loader binds an empty
\* dict and fills it key by key (NES, NDS); style "atomic": it binds the
\* dict json.load returned (GBA, SNES)
LoaderStart(style) ==
    [style |-> style, ref |-> 0,
     heap |-> [t \in Threads |-> {}],
     pc |-> [t \in Threads |-> "idle"],
     i |-> [t \in Threads |-> 1],
     db |-> [t \in Threads |-> 0],
     calls |-> [t \in Threads |-> 0]]

InitLoad ==
    /\ rom = NoFile /\ romBak = NoFile /\ inTemp = FALSE
    /\ zip = NoZip /\ zipBak = NoZip
    /\ games = <<>> /\ custom = <<>> /\ headers = <<>>
    /\ repaired = FALSE
    /\ last = NoOp
    /\ probe = NoProbe
    /\ loader \in {LoaderStart(style) : style \in {"loop", "atomic"}}
    /\ Idle

Unloaded == <<rom, romBak, inTemp, zip, zipBak, games, custom, headers, repaired,
              probe, backupDir, library, procs>>

\* thread t enters _load_games_db()
LoadCall(t) ==
    /\ loader.pc[t] = "idle" /\ loader.calls[t] < MaxCalls
    /\ loader' = [loader EXCEPT !.pc[t] = "test", !.calls[t] = @ + 1]
    /\ UNCHANGED <<Unloaded, last>>

\* "if _games_db is None:"
LoadTest(t) ==
    /\ loader.pc[t] = "test"
    /\ loader' = [loader EXCEPT !.pc[t] = IF loader.ref = 0 THEN "read" ELSE "return"]
    /\ UNCHANGED <<Unloaded, last>>

\* "_games_db = json.load(f)": the name is bound to the complete dict
LoadAssign(t) ==
    /\ loader.pc[t] = "read" /\ loader.style = "atomic"
    /\ loader' = [loader EXCEPT !.heap[t] = AllKeys, !.ref = t, !.pc[t] = "return"]
    /\ UNCHANGED <<Unloaded, last>>

\* "raw = json.load(f)" and "_games_db = {}": the name is bound to an empty dict
LoadReset(t) ==
    /\ loader.pc[t] = "read" /\ loader.style = "loop"
    /\ loader' = [loader EXCEPT !.heap[t] = {}, !.ref = t, !.i[t] = 1,
                                !.pc[t] = "fill"]
    /\ UNCHANGED <<Unloaded, last>>

\* one round of "for crc, val in raw.items(): _games_db[crc] = ...": the
\* store goes to the dict the global name holds at that moment
LoadFill(t) ==
    /\ loader.pc[t] = "fill"
    /\ loader' = IF loader.i[t] > Len(RawKeys)
                 THEN [loader EXCEPT !.pc[t] = "return"]
                 ELSE [loader EXCEPT !.heap[loader.ref] = @ \cup {loader.i[t]},
                                     !.i[t] = @ + 1]
    /\ UNCHANGED <<Unloaded, last>>

\* "return _games_db"
LoadReturn(t) ==
    /\ loader.pc[t] = "return"
    /\ loader' = [loader EXCEPT !.db[t] = loader.ref, !.pc[t] = "lookup"]
    /\ UNCHANGED <<Unloaded, last>>

\* "_load_games_db().get(crc)" of the caller, for a key of the file
Lookup(t) ==
    /\ loader.pc[t] = "lookup"
    /\ \E k \in AllKeys :
          last' = [op |-> "lookup", thread |-> t, key |-> RawKeys[k],
                   style |-> loader.style,
                   hit |-> k \in loader.heap[loader.db[t]],
                   table |-> loader.heap[loader.db[t]]]
    /\ loader' = [loader EXCEPT !.pc[t] = "idle"]
    /\ UNCHANGED Unloaded

NextLoad ==
    \E t \in Threads :
        \/ LoadCall(t) \/ LoadTest(t) \/ LoadAssign(t) \/ LoadReset(t)
        \/ LoadFill(t) \/ LoadReturn(t) \/ Lookup(t)

SpecLoad == InitLoad /\ [][NextLoad]_vars

-----------------------------------------------------------------------------
(* Backup manager (app/core/backup.py): the backup directory of one game    *)
(* save.  A backup is the pair <stamp>.zip / <stamp>.json, named after the  *)
(* UTC second of its creation; files maps each stamp present to its         *)
(* sidecar.  The wall clock counts seconds.                                 *)

MaxTime == 4
MaxCreates == 4

\* the largest element of a non-empty set of numbers
Newest(S) == CHOOSE t \in S : \A u \in S : u <= t

\* sorted(backup_dir.glob("*.json"), reverse=True)
RECURSIVE NewestFirst(_)
NewestFirst(S) ==
    IF S = {} THEN <<>> ELSE <<Newest(S)>> \o NewestFirst(S \ {Newest(S)})

\* BackupManager.list_backups: one BackupRecord per sidecar, newest first,
\* built from the fields the code reads (is_pinned is not among them and
\* keeps its default), numbered from the oldest
list_backups(files) ==
    [i \in 1..Cardinality(DOMAIN files) |->
        [stamp |-> NewestFirst(DOMAIN files)[i],
         is_pinned |-> FALSE,
         version |-> Cardinality(DOMAIN files) - i + 1]]

\* the loop of _rotate_backups: unlink the oldest of unpinned while there
\* are more than max_backups
RECURSIVE RotateLoop(_, _, _)
RotateLoop(files, unpinned, max_backups) ==
    IF Len(unpinned) > max_backups
    THEN RotateLoop([t \in DOMAIN files \ {unpinned[Len(unpinned)].stamp} |-> files[t]],
                    SubSeq(unpinned, 1, Len(unpinned) - 1), max_backups)
    ELSE files

\* BackupManager._rotate_backups
_rotate_backups(files, max_backups) ==
    RotateLoop(files, SelectSeq(list_backups(files), LAMBDA r : ~r.is_pinned),
               max_backups)

\* _write_zip and _write_sidecar at second now: both files are opened with
\* "w", and the sidecar written has no is_pinned key
WriteBackup(files, now) ==
    [t \in DOMAIN files \cup {now} |->
        IF t = now THEN [is_pinned |-> FALSE] ELSE files[t]]

InitBackup ==
    /\ rom = NoFile /\ romBak = NoFile /\ inTemp = FALSE
    /\ zip = NoZip /\ zipBak = NoZip
    /\ games = <<>> /\ custom = <<>> /\ headers = <<>>
    /\ repaired = FALSE
    /\ last = NoOp
    /\ probe = NoProbe
    /\ loader = NoLoader
    /\ library = NoLibrary
    /\ procs = NoProcs
    /\ \E m \in 1..3 :
          backupDir = [files |-> <<>>, clock |-> 0, max_backups |-> m,
                       creates |-> 0, pinned |-> {}]

Unbacked == <<rom, romBak, inTemp, zip, zipBak, games, custom, headers, repaired,
              probe, loader, library, procs>>

\* BackupManager.create_backup(game_save)
CreateBackup ==
    /\ backupDir.creates < MaxCreates
    /\ backupDir' = [backupDir EXCEPT
                        !.files = _rotate_backups(WriteBackup(@, backupDir.clock),
                                                  backupDir.max_backups),
                        !.creates = @ + 1]
    /\ last' = [op |-> "create_backup", stamp |-> backupDir.clock]
    /\ UNCHANGED Unbacked

\* BackupManager.pin_backup(record) on a record that list_backups returned;
\* pinned remembers the stamps ever pinned
PinBackup ==
    /\ \E i \in 1..Len(list_backups(backupDir.files)) :
          \E t \in {list_backups(backupDir.files)[i].stamp} :
              /\ backupDir' = [backupDir EXCEPT !.files[t].is_pinned = TRUE,
                                                !.pinned = @ \cup {t}]
              /\ last' = [op |-> "pin_backup", stamp |-> t]
    /\ UNCHANGED Unbacked

\* BackupManager.list_backups(emulator, game_id)
ListBackups ==
    /\ last' = [op |-> "list_backups", ret |-> list_backups(backupDir.files)]
    /\ UNCHANGED <<Unbacked, backupDir>>

\* a second passes
Tick ==
    /\ backupDir.clock < MaxTime
    /\ backupDir' = [backupDir EXCEPT !.clock = @ + 1]
    /\ UNCHANGED <<Unbacked, last>>

NextBackup == CreateBackup \/ PinBackup \/ ListBackups \/ Tick

SpecBackup == InitBackup /\ [][NextBackup]_vars

-----------------------------------------------------------------------------
(* ROM library (app/data/rom_library.py): rom_library.json on disk and two  *)
(* RomLibrary instances over the same path.  A table of entries is a        *)
(* function from keys to entries; an instance not yet constructed is None.  *)

Instances == {1, 2}
Entries == { [platform |-> "switch", game_id |-> "0100509005AF0000"],
             [platform |-> "nes", game_id |-> "1A2B3C4D"] }

\* RomLibrary.make_key
make_key(platform, game_id) == platform \o ":" \o game_id

\* the keys held by the instances that exist
HeldKeys(inst) ==
    UNION {DOMAIN inst[i] : i \in {j \in Instances : inst[j] # None}}

InitLibrary ==
    /\ rom = NoFile /\ romBak = NoFile /\ inTemp = FALSE
    /\ zip = NoZip /\ zipBak = NoZip
    /\ games = <<>> /\ custom = <<>> /\ headers = <<>>
    /\ repaired = FALSE
    /\ last = NoOp
    /\ probe = NoProbe
    /\ loader = NoLoader
    /\ backupDir = NoBackups
    /\ procs = NoProcs
    /\ library = [disk |-> None,
                  inst |-> [i \in Instances |-> None],
                  added |-> [i \in Instances |-> {}]]

Unshelved == <<rom, romBak, inTemp, zip, zipBak, games, custom, headers, repaired,
               probe, loader, backupDir, procs>>

\* RomLibrary(data_dir): an empty index; nothing is read.  added[i] keeps
\* the keys that instances held when instance i was constructed
LibNew(i) ==
    /\ library' = [library EXCEPT !.inst[i] = <<>>,
                                  !.added[i] = HeldKeys(library.inst)]
    /\ last' = [op |-> "new", instance |-> i]
    /\ UNCHANGED Unshelved

\* RomLibrary.add(entry)
LibAdd(i, e) ==
    /\ library.inst[i] # None
    /\ library' = [library EXCEPT
                      !.inst[i] = [k \in DOMAIN @ \cup {make_key(e.platform, e.game_id)} |->
                                      IF k = make_key(e.platform, e.game_id) THEN e
                                      ELSE @[k]]]
    /\ last' = [op |-> "add", instance |-> i]
    /\ UNCHANGED Unshelved

\* RomLibrary.save(): the index goes to a .tmp file that replaces the JSON
\* file; on OSError the .tmp file is removed and the JSON file keeps its content
LibSave(i) ==
    /\ library.inst[i] # None
    /\ \E ok \in BOOLEAN :
          library' = [library EXCEPT !.disk = IF ok THEN library.inst[i] ELSE @]
    /\ last' = [op |-> "save", instance |-> i]
    /\ UNCHANGED Unshelved

\* RomLibrary.load()
LibLoad(i) ==
    /\ library.inst[i] # None
    /\ library' = [library EXCEPT
                      !.inst[i] = IF library.disk = None THEN <<>> ELSE library.disk]
    /\ last' = [op |-> "load", instance |-> i]
    /\ UNCHANGED Unshelved

\* RomLibrary.get(platform, game_id)
LibGet(i, e) ==
    /\ library.inst[i] # None
    /\ last' = [op |-> "get", instance |-> i,
                key |-> make_key(e.platform, e.game_id),
                ret |-> IF make_key(e.platform, e.game_id) \in DOMAIN library.inst[i]
                        THEN library.inst[i][make_key(e.platform, e.game_id)]
                        ELSE None]
    /\ UNCHANGED <<Unshelved, library>>

NextLibrary ==
    \E i \in Instances :
        \/ LibNew(i) \/ LibSave(i) \/ LibLoad(i)
        \/ \E e \in Entries : LibAdd(i, e) \/ LibGet(i, e)

SpecLibrary == InitLibrary /\ [][NextLibrary]_vars

-----------------------------------------------------------------------------
(* Two unserialized NESGamePlugin.parse_rom_info calls on one path.  Each   *)
(* call advances by one file-system operation at a time: the header read,   *)
(* the CRC read, the read of _match_with_dat_header, and in _fix_nes_header *)
(* the bak.exists() test, shutil.copy2, open(path, "wb") and f.write.       *)
(* Every operation succeeds; calls differ only in how their steps mix.      *)

Callers == {1, 2}

\* a call that has not yet opened the file
NewCall == [pc |-> "header", s |-> Priority1(""), data |-> NoFile,
            hdr |-> <<>>, info |-> None]

InitRace ==
    /\ \E h \in FileHdrs, body \in Bodies :
          /\ rom = h \o body
          /\ InitTables(body)
    /\ romBak \in {NoFile, <<66, 65, 75>>}
    /\ inTemp \in BOOLEAN
    /\ zip = NoZip /\ zipBak = NoZip
    /\ repaired = FALSE
    /\ last = NoOp
    /\ probe = NoProbe
    /\ loader = NoLoader
    /\ backupDir = NoBackups
    /\ library = NoLibrary
    /\ procs = [rom0 |-> rom, bak0 |-> romBak, overlapped |-> FALSE,
                p |-> [i \in Callers |-> NewCall]]

Unraced == <<inTemp, zip, zipBak, games, custom, headers, repaired, last, probe,
             loader, backupDir, library>>

\* the call returns info
Returned(i, info) ==
    [procs EXCEPT !.p[i].pc = "done", !.p[i].info = info]

\* the other call is between its first file operation and its return
MidCall(j) == procs.p[j].pc \notin {"header", "done"}

\* a test that always finds <file>.bak missing
BakMissing_always(bak) == TRUE

\* the test of <file>.bak in _fix_nes_header
BakMissing(bak) == bak = NoFile

\* parse_nes_header(rom_path): None ends the call
RaceHeader(i) ==
    /\ procs.p[i].pc = "header"
    /\ procs' = [(IF parse_nes_header(rom) = None THEN Returned(i, None)
                  ELSE [procs EXCEPT !.p[i].pc = "crc"])
                 EXCEPT !.overlapped = procs.overlapped
                                       \/ \E j \in Callers \ {i} : MidCall(j)]
    /\ UNCHANGED <<rom, romBak>>
    /\ UNCHANGED Unraced

\* _compute_crc32(rom_path) and priorities 1 and 2
RaceCrc(i) ==
    /\ procs.p[i].pc = "crc"
    /\ \E s \in {Priority2(Priority1(_compute_crc32(rom)))} :
          procs' = IF s.title_name = "" /\ s.crc # ""
                   THEN [procs EXCEPT !.p[i].pc = "match", !.p[i].s = s]
                   ELSE Returned(i, Priority4(s, RomStem).info)
    /\ UNCHANGED <<rom, romBak>>
    /\ UNCHANGED Unraced

\* the header that _match_with_dat_header finds for the bytes it read,
\* <<>> when it returns "" before the loop or after it
MatchedHdr(data) ==
    IF Len(headers) = 0 THEN <<>>
    ELSE IF Len(data) > NesMaxSize \/ Len(data) < 16 THEN <<>>
    ELSE IF Take(data, 4) # _INES_MAGIC THEN <<>>
    ELSE IF FirstMatch(headers, games, Tail16(data), 1) = 0 THEN <<>>
    ELSE headers[FirstMatch(headers, games, Tail16(data), 1)]

\* the record of a call whose _match_with_dat_header returned matched_crc
RaceInfo(s, matched_crc) == Priority4(Priority3(s, matched_crc), RomStem).info

\* _match_with_dat_header up to the call of _fix_nes_header, and the tests
\* of _fix_nes_header that touch no file
RaceRead(i) ==
    /\ procs.p[i].pc = "match"
    /\ \E hdr \in {MatchedHdr(rom)} :
          procs' =
            IF hdr = <<>> THEN Returned(i, RaceInfo(procs.p[i].s, ""))
            ELSE IF fix_is_noop(rom, hdr)
            THEN Returned(i, RaceInfo(procs.p[i].s, CrcStr(hdr \o Tail16(rom))))
            ELSE [procs EXCEPT !.p[i].data = rom, !.p[i].hdr = hdr,
                               !.p[i].pc = IF inTemp THEN "open" ELSE "bak_test"]
    /\ UNCHANGED <<rom, romBak>>
    /\ UNCHANGED Unraced

\* if not bak.exists()
RaceBakTest(i) ==
    /\ procs.p[i].pc = "bak_test"
    /\ procs' = [procs EXCEPT !.p[i].pc = IF BakMissing(romBak) THEN "copy"
                                          ELSE "open"]
    /\ UNCHANGED <<rom, romBak>>
    /\ UNCHANGED Unraced

\* shutil.copy2(path, bak): the bytes the file holds now
RaceCopy(i) ==
    /\ procs.p[i].pc = "copy"
    /\ romBak' = rom
    /\ procs' = [procs EXCEPT !.p[i].pc = "open"]
    /\ UNCHANGED rom
    /\ UNCHANGED Unraced

\* open(path, "wb") truncates the file
RaceOpen(i) ==
    /\ procs.p[i].pc = "open"
    /\ rom' = <<>>
    /\ procs' = [procs EXCEPT !.p[i].pc = "write"]
    /\ UNCHANGED romBak
    /\ UNCHANGED Unraced

\* f.write(correct_header + original_data[16:]) from offset 0, and the
\* return of the matched CRC
RaceWrite(i) ==
    /\ procs.p[i].pc = "write"
    /\ rom' = FixedImage(procs.p[i].data, procs.p[i].hdr)
    /\ procs' = Returned(i, RaceInfo(procs.p[i].s,
                                     CrcStr(procs.p[i].hdr \o Tail16(procs.p[i].data))))
    /\ UNCHANGED romBak
    /\ UNCHANGED Unraced

NextRace ==
    \E i \in Callers :
        \/ RaceHeader(i)
        \/ RaceCrc(i)
        \/ RaceRead(i)
        \/ RaceBakTest(i)
        \/ RaceCopy(i)
        \/ RaceOpen(i)
        \/ RaceWrite(i)

SpecRace == InitRace /\ [][NextRace]_vars

\* both calls returned
RaceDone == procs # NoProcs /\ \A i \in Callers : procs.p[i].pc = "done"

\* what the two calls leave: the file, <file>.bak and the record of each
RaceOutcome == <<rom, romBak, procs.p[1].info, procs.p[2].info>>

\* one whole call on the file and .bak that r left (r being a directory
\* state or the result of the call before)
WholeCall(r) == parse_rom_info(r.file, RomStem, inTemp, r.bak, <<"ok", 0>>, "ok")

\* the outcomes of the two serial executions, caller 1 first and caller 2
\* first
SerialOutcomes ==
    LET first == WholeCall([file |-> procs.rom0, bak |-> procs.bak0])
        second == WholeCall(first)
    IN  { <<second.file, second.bak, first.info, second.info>>,
          <<second.file, second.bak, second.info, first.info>> }

-----------------------------------------------------------------------------
(* Claims on the NES header repair engine (specification Spec) *)

LastParse == last.op = "parse"

\* a repair that the call reports as successful
RepairOk == LastParse /\ last.matched # ""

\* no pool header, put before the body of data, gives a key of the official table
NoCandidate(data) ==
    \A i \in 1..Len(headers) : CrcStr(headers[i] \o Tail16(data)) \notin DOMAIN games

\* C1: whenever the repair engine overwrites bytes of a file that is not a
\* scratch copy of the archive adapter, <file>.bak exists when the overwrite
\* starts.
C1_BackupBeforeOverwrite ==
    (LastParse /\ last.overwrote /\ ~last.scratch) => last.bakAtWrite # NoFile

\* C2: a header rewrite that fails before it completes leaves the file's
\* bytes as they were before the repair attempt.
C2_FailedWriteLeavesFile ==
    (LastParse /\ last.fixCalled /\ last.failed = "write") => rom = last.preRom

C4_NoMatchNoChange ==
    (LastParse /\ NoCandidate(last.preRom)) =>
        /\ last.matched = ""
        /\ rom = last.preRom
        /\ romBak = last.preBak

C4_Witness ==
    /\ LastParse /\ last.matchCalled /\ Len(headers) > 0
    /\ NoCandidate(last.preRom) /\ romBak = NoFile

\* C5: after a successful repair the CRC32 of the file's bytes is the matched
\* reference CRC: it is the entry of dat_crc32, the record's title_id and the
\* value extract_game_id returns for the repaired file.
C5_RepairedCrcIsMatch ==
    RepairOk => /\ _compute_crc32(rom) = last.matched
                /\ last.matched \in DOMAIN games
                /\ last.info.dat_crc32 = <<last.matched>>
                /\ last.info.title_id = last.matched
                /\ extract_game_id(rom, RomStem, "ok") = last.matched

C5_Witness == RepairOk /\ last.overwrote /\ last.info.title_name = "Game B"

\* C6: a parse_rom_info call on a file that an earlier call repaired resolves
\* by direct lookup, never enters the repair engine, and changes neither the
\* file nor its .bak.
C6_NoSecondRepair ==
    (LastParse /\ last.wasRepaired) =>
        /\ ~last.matchCalled
        /\ rom = last.preRom
        /\ romBak = last.preBak

\* C25: on a file outside the temp directory, whatever its directory held
\* before, the first call that rewrites the file leaves in <file>.bak the
\* bytes the file had before the rewrite, and once a repair is complete no
\* later call changes <file>.bak.
C25_BakHoldsOriginal ==
    [][(last'.op = "parse" /\ ~inTemp)
       => /\ (last.op = "init" /\ rom' # rom) => romBak' = rom
          /\ repaired => romBak' = romBak]_vars

\* C26: whatever the tables hold, parse_rom_info leaves untouched a file
\* whose CRC32 is a key of the custom table or of the official table.
C26_KnownCrcNotModified ==
    (last.op = "parse"
     /\ (_compute_crc32(last.preRom) \in DOMAIN custom
         \/ _compute_crc32(last.preRom) \in DOMAIN games))
        => rom = last.preRom /\ ~last.fixCalled

-----------------------------------------------------------------------------
(* Claims on the ZIP archive adapter (specification SpecZip) *)

LastZip == last.op = "zip"

HasMember(members, name, data) ==
    \E i \in DOMAIN members : members[i].name = name /\ members[i].data = data

\* the rewritten archive holds the repaired ROM and every other member as before
MembersAfterRepair ==
    /\ HasMember(zip.members, last.rom_name, last.fixed_data)
    /\ Len(zip.members) = Len(last.preZip.members)
    /\ \A i \in DOMAIN last.preZip.members :
          last.preZip.members[i].name # last.rom_name =>
              HasMember(zip.members, last.preZip.members[i].name,
                        last.preZip.members[i].data)

C8_NoRepairNoRewrite ==
    /\ (LastZip /\ ~last.overwrote) =>
          /\ ~last.updateCalled
          /\ zip = last.preZip
          /\ zipBak = last.preZipBak
    /\ (LastZip /\ last.updateCalled) => last.scratchChanged

C8_Witness ==
    /\ LastZip /\ last.again /\ ~last.overwrote
    /\ last.ret # None /\ last.ret.rom_info # None
    /\ zip = last.preZip /\ zip.state = "ok"

-----------------------------------------------------------------------------
(* Claims on the title priority chains (specification SpecTitle) *)

\* the record and the custom-table keys of the last identification
LastInfo == IF last.op \in {"parse", "title"} THEN last.info ELSE None
LastKeys ==
    IF last.op = "title" THEN last.keys
    ELSE IF last.op = "parse" /\ last.acc = "ok" THEN {_compute_crc32(last.preRom)}
    ELSE {}

\* C9: on every platform, whenever a lookup key of the file is present in
\* the custom table (with a name), the title of the record is that custom
\* name, whatever the official table holds for the keys of the file.
C9_CustomNameWins ==
    (LastInfo # None /\ \E k \in LastKeys : k \in DOMAIN custom /\ custom[k].name # "")
        => \E k \in LastKeys :
              k \in DOMAIN custom /\ LastInfo.title_name = custom[k].name

\* C10: on every platform, a returned record has a non-empty title_name.
C10_TitleNeverEmpty ==
    LastInfo # None => LastInfo.title_name # ""

\* C11: the canonical ID of an unmodified file is the same on every
\* extraction by the same route (directly on the file, or on the scratch copy
\* of the archive adapter): two successive readable extractions agree.
C11_StableId ==
    [][(/\ last.op = "extract_id" /\ last'.op = "extract_id"
        /\ last.via = last'.via
        /\ last.acc = "ok" /\ last'.acc = "ok"
        /\ ~last.raised /\ ~last'.raised)
       => last'.ret = last.ret]_vars

\* C12: extract_game_id of every platform returns a string and does not
\* raise, whatever the file: missing, unreadable, vanishing, truncated or
\* malformed.
C12_ExtractIdTotal ==
    last.op = "extract_id" => ~last.raised /\ last.ret \in STRING

C12_Witness ==
    /\ last.op = "extract_id" /\ last.platform = "gba" /\ last.acc = "gone"
    /\ last.via = "file" /\ last.ret = RomStem

\* C13: the CRC helper of every platform returns "" when the file is over
\* its size limit or a read or stat fails, and never raises to its caller.
C13_CrcHelperTotal ==
    last.op = "crc" =>
        /\ ~last.raised
        /\ last.acc # "ok" => last.ret = ""
        /\ (last.platform # "nes" /\ probe.size > MaxCrcSize(last.platform))
               => last.ret = ""

\* C14: parse_rom_info of every platform returns a record or None, and
\* raises nothing, on every readable file, however malformed its content.
C14_ParseTotalOnReadable ==
    (last.op \in {"parse", "title"} /\ last.acc = "ok") => ~last.raised

C14_Witness ==
    /\ last.op = "title" /\ last.platform = "switch" /\ last.acc = "ok"
    /\ probe.suffix = ".nsp" /\ parse_nsp(probe.image, probe.stem).raised
    /\ last.info = None

\* C15: when the file cannot be read, parse_rom_info hands its caller a
\* failure (an exception), not the None of an unrecognized format nor a
\* record built from the file name.
C15_IoFailureRaised ==
    (/\ last.op \in {"parse", "title"}
     /\ last.acc = "gone"
     /\ last.op = "title" /\ last.platform = "switch"
            => probe.suffix \in {".nsp", ".nsz", ".xci", ".xcz"})
        => last.raised

\* a CIA file that holds its whole TMD and the first 0x200 bytes of its
\* content section, the TMD being of 0x200 bytes at least and long enough
\* for the title ID
CiaComplete(img) ==
    /\ img.header_size > 0 /\ img.header_size <= 65536
    /\ img.tmd_size >= 512
    /\ img.tmd_size >= _TMD_SIG_SIZES(img.sig_type) + 76 + 8
    /\ img.size >= _align64(img.header_size) + _align64(img.cert_size)
                   + _align64(img.ticket_size) + _align64(img.tmd_size) + 512

\* C29: for a complete CIA file whose TMD has one of the six known signature
\* types, parse_cia_header returns a record whose title ID is the one stored
\* in the TMD at the header size of that signature type plus 0x4C.
C29_TmdTitleIdForKnownSigTypes ==
    (/\ last.op = "title" /\ last.platform = "3ds" /\ last.acc = "ok"
     /\ probe.suffix = ".cia"
     /\ probe.image.sig_type \in KnownSigTypes
     /\ CiaComplete(probe.image))
        => /\ parse_cia_header(probe.image) # None
           /\ parse_cia_header(probe.image).title_id = probe.image.tmd_id

\* the CRC32 strings of the bytes the file held when the last call read it
\* and of the bytes it holds after the call
LastFileCrcs ==
    IF last.op = "parse" THEN LastKeys \cup {_compute_crc32(rom)} ELSE LastKeys

\* C28: on every platform, each CRC of a record's dat_crc32 is the CRC32 of
\* the file's bytes (after a repair, of the repaired bytes) or stands in a
\* reference entry that holds the file's CRC32.
C28_DatCrcIsConfirmed ==
    (LastInfo # None /\ LastInfo.dat_crc32 # <<>>)
        => \A i \in 1..Len(LastInfo.dat_crc32) :
              \/ LastInfo.dat_crc32[i] \in LastFileCrcs
              \/ /\ last.op = "title" /\ last.platform = "nds"
                 /\ \E k \in DOMAIN games :
                       /\ \E j \in 1..Len(games[k].crc32) :
                             games[k].crc32[j] \in LastFileCrcs
                       /\ \E j \in 1..Len(games[k].crc32) :
                             games[k].crc32[j] = LastInfo.dat_crc32[i]

-----------------------------------------------------------------------------
(* Claims on the lazy table caches (specification SpecLoad) *)

\* C16: with several calls running at once before the table is loaded, every
\* lookup is made in the completely populated table, never in a partly
\* populated one.
C16_NoPartialLookup ==
    last.op = "lookup" => last.table = AllKeys

-----------------------------------------------------------------------------
(* Claims on the pure functions (specification SpecPure) *)

\* C17: the class of a 16-hex-character title ID is fixed by its last three
\* digits: base exactly for 000, update exactly for 800, dlc exactly for
\* 001..7FF, unknown for every other value.
C17_ClassBySuffix ==
    (last.op = "classify" /\ Len(probe.id) = 16
     /\ \A i \in 1..16 : probe.id[i] \in Digits \cup {"A", "B", "C", "D", "E", "F",
                                                      "a", "b", "c", "d", "e", "f"})
        => /\ (last.ret = "base") <=> (\A i \in 14..16 : probe.id[i] = "0")
           /\ (last.ret = "update")
                 <=> (probe.id[14] = "8" /\ probe.id[15] = "0" /\ probe.id[16] = "0")
           /\ (last.ret = "dlc")
                 <=> (probe.id[14] \in {"0", "1", "2", "3", "4", "5", "6", "7"}
                      /\ \E i \in 14..16 : probe.id[i] # "0")
           /\ last.ret \in {"base", "update", "dlc", "unknown"}

C17_Witness ==
    last.op = "classify" /\ last.ret = "dlc" /\ probe.id[14] = "7" /\ probe.id[15] = "f"

\* C18: an SNES image that fails the checksum gate at the LoROM offset and
\* passes it at the HiROM offset parses to a record whose mapping_mode is
\* "HiROM".
C18_HiRomSelected ==
    (last.op = "snes_header" /\ probe.image.size >= 65536
     /\ Xor(probe.image.lo.checksum, probe.image.lo.complement) # 65535
     /\ Xor(probe.image.hi.checksum, probe.image.hi.complement) = 65535)
        => (last.ret # None /\ last.ret.mapping_mode = "HiROM")

C21_SameAsNesExtractor ==
    last.op = "zip_version" => last.ret = _extract_version_from_filename(probe.stem)

\* C24: for every resolved absolute path p, under a placeholder directory,
\* beside one or outside all, from_portable_path(to_portable_path(p)) is p.
C24_PortableRoundTrip ==
    last.op = "round_trip" => last.ret = probe.path

-----------------------------------------------------------------------------
(* Claims on the backup manager (specification SpecBackup) *)

\* C22: after k create_backup calls for the same save, k not above
\* max_backups, list_backups returns k records, newest first, numbered k
\* down to 1, whatever the time between the calls.
C22_OneRecordPerBackup ==
    (last.op = "list_backups" /\ backupDir.creates <= backupDir.max_backups)
        => /\ Len(last.ret) = backupDir.creates
           /\ \A i \in 1..Len(last.ret) :
                 /\ last.ret[i].version = backupDir.creates - i + 1
                 /\ i > 1 => last.ret[i].stamp < last.ret[i - 1].stamp

\* C30: a backup pinned by pin_backup survives every later create_backup:
\* its ZIP and its sidecar exist.
C30_PinnedSurvives ==
    \A t \in backupDir.pinned : t \in DOMAIN backupDir.files

-----------------------------------------------------------------------------
(* Claims on the ROM library (specification SpecLibrary) *)

\* C23: an entry that an instance held when a second instance was
\* constructed over the same path is returned by get of the second
\* instance, with no save or load call needed.
C23_AddIsPersistent ==
    (last.op = "get" /\ last.key \in library.added[last.instance])
        => last.ret # None

-----------------------------------------------------------------------------
(* Claims on unserialized calls on one path (specification SpecRace) *)

\* C27: header repair is a non-atomic read-modify-write.  Two calls on the
\* same NES path of which one returns before the other opens the file leave
\* the file, <file>.bak and the two records of a serial execution; calls
\* whose steps mix can leave what no serial execution leaves (C27_Witness).
C27_SerializedCallsAgree ==
    (RaceDone /\ ~procs.overlapped) => RaceOutcome \in SerialOutcomes

\* two mixed calls returned, and the file, <file>.bak or a record is that of
\* no serial execution
C27_Witness ==
    RaceDone /\ procs.overlapped /\ RaceOutcome \notin SerialOutcomes

=============================================================================
